---- MODULE Spec2Model ----
(***************************************************************************)
(* Verification model of the SMCP plugin gateway (src/smcp.py): the        *)
(* subprocess execution engine execute_plugin_tool, its caller             *)
(* call_tool_handler, the process-wide metrics counters, and the plugin    *)
(* subprocess with its two output pipes as the environment.                *)
(*                                                                         *)
(* Text is modelled as a sequence of characters.  A plugin's output is a   *)
(* sequence of symbols, each standing for one run of bytes: whitespace,    *)
(* plain words, whole JSON documents and one byte that is not UTF-8.       *)
(* Time is a global clock in seconds.  The engine's own steps take no      *)
(* time (the clock does not advance while one of them is runnable); the    *)
(* plugin, the operating system and the callers take as long as they like. *)
(***************************************************************************)
EXTENDS Integers, Sequences, FiniteSets, TLC

(***************************************************************************)
(* Bounds of the model.                                                    *)
(***************************************************************************)
PipeCap == 2        \* symbols a pipe buffers before the writer blocks
TickStep == 150     \* largest advance of the clock in one step
MaxTime == 460      \* the clock stops here
MaxNameLen == 2     \* longest plugin or command name a directory or a plugin gives
MaxArgs == 2        \* most arguments of one tool call
MaxEntries == 3     \* most entries of the plugins directory
MaxLines == 3       \* most lines of a help text
MaxRegistered == 4  \* tools_registered up to which register_plugin_tools is called again
MaxParams == 2      \* most parameters of a command

(***************************************************************************)
(* Program constants.                                                      *)
(***************************************************************************)
timeout_seconds == 300   \* deadline of the whole read_output operation
GraceSeconds == 5        \* bounded wait for the killed process
ReadSize == 8192         \* stream.read(8192)

Calls == {"c1", "c2"}
Streams == {"stdout", "stderr"}
\* an optional value: None, or Some(v) with the value v == x[1]
None == << >>
Some(v) == << v >>
\* a local variable no assignment has reached
Unbound == << >>

(***************************************************************************)
(* Sequence helpers.                                                       *)
(***************************************************************************)
Min(a, b) == IF a <= b THEN a ELSE b

Take(s, n) == SubSeq(s, 1, Min(n, Len(s)))

Drop(s, n) == SubSeq(s, Min(n, Len(s)) + 1, Len(s))

\* sub occurs in s starting at index i
OccursAt(s, sub, i) ==
    /\ i >= 1
    /\ i + Len(sub) - 1 <= Len(s)
    /\ SubSeq(s, i, i + Len(sub) - 1) = sub

\* Python: sub in s
Contains(s, sub) == \E i \in 1..(Len(s) + 1) : OccursAt(s, sub, i)

\* index of the first occurrence of sub in s (sub occurs in s)
FirstIndex(s, sub) ==
    CHOOSE i \in 1..(Len(s) + 1) :
        /\ OccursAt(s, sub, i)
        /\ \A j \in 1..(i - 1) : ~OccursAt(s, sub, j)

\* Python: s.split(sep, 1)
Split1(s, sep) ==
    IF Contains(s, sep)
    THEN LET i == FirstIndex(s, sep)
         IN  << SubSeq(s, 1, i - 1), SubSeq(s, i + Len(sep), Len(s)) >>
    ELSE << s >>

(***************************************************************************)
(* Tool names and the registry.                                            *)
(***************************************************************************)
Str_pc == << "p", "c" >>
Str_p == << "p" >>
Str_q == << "q" >>
Str_c == << "c" >>
DUNDER == << "_", "_" >>
DOT == << "." >>

\* names a client may invoke: both delimiters, no delimiter, a single
\* underscore, an unknown plugin in both forms
CallNames ==
    { Str_p \o DUNDER \o Str_c,
      Str_p \o DOT \o Str_c,
      Str_pc,
      << "p", "_", "c" >>,
      Str_q \o DUNDER \o Str_c,
      Str_q \o DOT \o Str_c }

\* the characters of plugin and command names: a letter, '-', '_', '.'
NameAlphabet == { "a", "-", "_", "." }

\* the names a plugin directory or a command can have
Names == UNION { [ 1..n -> NameAlphabet ] : n \in 1..MaxNameLen }

\* smcp.py 115/119: str(plugin_dir / "cli.py")
PathOf(plugin_name) == << "plugins/" >> \o plugin_name \o << "/cli.py" >>

\* plugin_registry after discovery: plugin name -> path of its cli.py
RegistryAfterDiscovery == [ n \in { Str_p } |-> << "plugins/" >> \o n \o << "/cli.py" >> ]

\* a parser that also takes a single underscore for the delimiter
ParseToolNameLenient(tool_name) ==
    LET sep == IF Contains(tool_name, DUNDER) THEN DUNDER
               ELSE IF Contains(tool_name, DOT) THEN DOT ELSE << "_" >>
        parts == Split1(tool_name, sep)
    IN  IF Len(parts) # 2
        THEN [ ok |-> FALSE, plugin_name |-> << >>, command |-> << >> ]
        ELSE [ ok |-> TRUE, plugin_name |-> parts[1], command |-> parts[2] ]

\* a parser that tries the dot first
ParseToolNameDotFirst(tool_name) ==
    LET sep == IF Contains(tool_name, DOT) THEN DOT ELSE DUNDER
        parts == Split1(tool_name, sep)
    IN  IF Len(parts) # 2
        THEN [ ok |-> FALSE, plugin_name |-> << >>, command |-> << >> ]
        ELSE [ ok |-> TRUE, plugin_name |-> parts[1], command |-> parts[2] ]

\* smcp.py 243-252: the (plugin, command) pair of a tool name
ParseToolName(tool_name) ==
    IF Contains(tool_name, DUNDER)
    THEN LET parts == Split1(tool_name, DUNDER)
         IN  IF Len(parts) # 2
             THEN [ ok |-> FALSE, plugin_name |-> << >>, command |-> << >> ]
             ELSE [ ok |-> TRUE, plugin_name |-> parts[1], command |-> parts[2] ]
    ELSE IF Contains(tool_name, DOT)
         THEN LET parts == Split1(tool_name, DOT)
              IN  [ ok |-> TRUE, plugin_name |-> parts[1], command |-> parts[2] ]
         ELSE [ ok |-> FALSE, plugin_name |-> << >>, command |-> << >> ]

(***************************************************************************)
(* Argument marshaling, smcp.py 260-272.  An argument mapping is a         *)
(* sequence of <<key, value>> pairs in mapping order; a value is a bool, a  *)
(* text or a number: a record whose field t names the type and whose field *)
(* b, s or n holds the value.                                              *)
(***************************************************************************)
Bool(b) == [ t |-> "bool", b |-> b, s |-> << >>, n |-> 0 ]
Text(s) == [ t |-> "str", b |-> FALSE, s |-> s, n |-> 0 ]
Number(n) == [ t |-> "int", b |-> FALSE, s |-> << >>, n |-> n ]

sys_executable == << "python" >>

\* Python: key.replace('_', '-')
ReplaceUnderscores(key) == [ i \in 1..Len(key) |-> IF key[i] = "_" THEN "-" ELSE key[i] ]

\* a flag that keeps the key as it is
FlagVerbatim(key) == << "-", "-" >> \o key

\* Python: str(value) for a value that is no bool: a text is itself, a
\* number its decimal form
str(value) == IF value.t = "int" THEN << ToString(value.n) >> ELSE value.s

\* smcp.py 267/270/272: the flag of a key
Flag(key) == << "-", "-" >> \o ReplaceUnderscores(key)

RECURSIVE MarshalArguments(_)
MarshalArguments(arguments) ==
    IF arguments = << >>
    THEN << >>
    ELSE LET key == Head(arguments)[1]
             value == Head(arguments)[2]
             here == IF value.t = "bool"
                     THEN IF value.b THEN << Flag(key) >> ELSE << >>
                     ELSE << Flag(key), str(value) >>
         IN  here \o MarshalArguments(Tail(arguments))

BuildCmdArgs(cli_path, command, arguments) ==
    << sys_executable, cli_path, command >> \o MarshalArguments(arguments)

ArgMaps ==
    { << >>,
      << << << "u", "_", "s" >>, Bool(TRUE) >>,
         << << "v" >>, Bool(FALSE) >>,
         << << "a", "_", "n" >>, Text(<< "x" >>) >> >> }

(***************************************************************************)
(* Tool synthesis, smcp.py 401-502.  A command entry of a --describe       *)
(* document is a record                                                    *)
(*   [ shape, name, description, parameters ]                              *)
(* shape is the JSON type of the entry ("object", "string", "null"); name  *)
(* is None (no such field or null) or Some(text); description is           *)
(* [ kind |-> "absent" | "string", v |-> text ]; parameters is             *)
(* [ kind |-> "absent" | "list" | "null" | "string", v |-> entries ].      *)
(* A parameter entry is a record                                           *)
(*   [ shape, name, type, description, required, default ]                 *)
(* with type [ kind |-> "absent" | "string" | "number", v |-> text ] and   *)
(* default None or Some(text).                                             *)
(***************************************************************************)
\* smcp.py 423-430
json_type_map == { "string", "number", "integer", "boolean", "array", "object" }

\* Python: text.lower(), on the type names the model uses
lower(text) ==
    IF text = "STRING" THEN "string"
    ELSE IF text = "Array" THEN "array"
    ELSE text

\* Python: d[k] = v on a mapping kept as a sequence of <<key, value>> pairs:
\* a key that is there keeps its place and takes the new value
SetItem(d, k, v) ==
    IF \E i \in 1..Len(d) : d[i][1] = k
    THEN [ i \in 1..Len(d) |-> IF d[i][1] = k THEN << k, v >> ELSE d[i] ]
    ELSE Append(d, << k, v >>)

\* smcp.py 491-496
EmptySchema ==
    [ type |-> "object", properties |-> << >>, required |-> << >>,
      additionalProperties |-> FALSE ]

\* smcp.py 416-450: one turn of the loop; raises on an entry that has no
\* .get (416) and on a type that has no .lower (432)
ParamRaises(param) ==
    \/ param.shape # "object"
    \/ param.type.kind = "number"

\* a property schema that takes every type for a string
PropSchemaAllStrings(param) ==
    [ type |-> "string",
      description |-> IF param.description # << >> THEN Some(param.description) ELSE None,
      default |-> param.default,
      items |-> None ]

\* smcp.py 416-445: the property schema of one parameter
PropSchema(param) ==
    LET param_type == IF param.type.kind = "absent" THEN "string" ELSE param.type.v
        json_type == IF lower(param_type) \in json_type_map THEN lower(param_type)
                     ELSE "string"
    IN  [ type |-> json_type,
          description |-> IF param.description # << >> THEN Some(param.description) ELSE None,
          default |-> param.default,
          items |-> IF json_type = "array" THEN Some("string") ELSE None ]

RECURSIVE SchemaLoop(_, _, _)
SchemaLoop(parameters, properties, required) ==
    IF parameters = << >>
    THEN [ raised |-> FALSE,
           schema |-> [ type |-> "object", properties |-> properties,
                        required |-> required, additionalProperties |-> FALSE ] ]
    ELSE LET param == Head(parameters)
         IN  IF ParamRaises(param)
             THEN [ raised |-> TRUE, schema |-> EmptySchema ]
             ELSE SchemaLoop(Tail(parameters),
                             SetItem(properties, param.name, PropSchema(param)),
                             IF param.required THEN Append(required, param.name)
                             ELSE required)

\* smcp.py 401-459
parameter_spec_to_json_schema(parameters) == SchemaLoop(parameters, << >>, << >>)

\* a tool name in the legacy form
ToolNameDot(plugin_name, command) == plugin_name \o DOT \o command

\* smcp.py 479
ToolName(plugin_name, command) == plugin_name \o DUNDER \o command

\* smcp.py 483/490: the synthesized description
DefaultDescription(plugin_name, command) ==
    << "Execute " >> \o plugin_name \o << " " >> \o command \o << " command" >>

\* smcp.py 462-502.  command_spec is None or Some(entry).  Raises when the
\* parameters are no sequence (415: None is not iterable; a text yields its
\* characters, which have no .get) and when a parameter entry raises.
create_tool_from_plugin(plugin_name, command, command_spec) ==
    LET tool_name == ToolName(plugin_name, command)
        fallback == [ name |-> tool_name,
                      description |-> DefaultDescription(plugin_name, command),
                      inputSchema |-> EmptySchema ]
    IN  IF command_spec = None
        THEN [ raised |-> FALSE, tool |-> fallback ]
        ELSE LET spec == command_spec[1]
                 description == IF spec.description.kind = "absent"
                                THEN DefaultDescription(plugin_name, command)
                                ELSE spec.description.v
                 parameters == IF spec.parameters.kind = "absent" THEN << >>
                               ELSE spec.parameters.v
                 input_schema == parameter_spec_to_json_schema(parameters)
             IN  IF \/ spec.parameters.kind \in { "null", "string" }
                    \/ input_schema.raised
                 THEN [ raised |-> TRUE, tool |-> fallback ]
                 ELSE [ raised |-> FALSE,
                        tool |-> [ name |-> tool_name, description |-> description,
                                   inputSchema |-> input_schema.schema ] ]

(***************************************************************************)
(* Plugin output.  ObjWithError, ObjNoError and ListWithError are whole    *)
(* JSON documents, Word is text that is no JSON, BadByte is a byte that    *)
(* no UTF-8 text contains.                                                 *)
(***************************************************************************)
ObjWithError == "{\"error\": \"bad config\"}"
ObjNoError == "{\"result\": 1}"
ListWithError == "[\"error\"]"
Word == "oops"
BadByte == "\\xff"
Whitespace == { " ", "\n" }

JsonDocs == { ObjWithError, ObjNoError, ListWithError }

\* more than a pipe buffers
Flood(sym) == [ i \in 1..(PipeCap + 1) |-> sym ]

\* what a plugin may print on standard output: nothing, whitespace alone,
\* text with and without whitespace around it, a JSON error document alone,
\* padded, and followed by text, other JSON, bytes that are no text, and
\* more text than the pipe holds
Docs ==
    { << >>, << " ", "\n" >>,
      << Word >>, << " ", Word, "\n" >>,
      << ObjWithError >>, << "\n", ObjWithError, " " >>, << ObjWithError, Word >>,
      << ObjNoError >>, << ListWithError >>, << BadByte >>,
      Flood(Word) }

\* what a plugin may print on standard error
ErrDocs == { << >>, Flood("e") }

ExitCodes == { 0, 1 }

\* bytes.decode() succeeds
Decodable(bytes) == \A i \in 1..Len(bytes) : bytes[i] # BadByte

\* Python: text.strip()
RECURSIVE strip(_)
strip(text) ==
    IF text = << >> THEN << >>
    ELSE IF Head(text) \in Whitespace THEN strip(Tail(text))
    ELSE IF text[Len(text)] \in Whitespace THEN strip(SubSeq(text, 1, Len(text) - 1))
    ELSE text

\* json.loads(text): a tagged parse result.  Text parses when it is one
\* JSON document (whitespace around it is allowed); anything after the
\* document or any other text raises JSONDecodeError.
json_loads(text) ==
    LET t == strip(text)
    IN  IF Len(t) = 1 /\ t[1] \in JsonDocs
        THEN [ ok |-> TRUE,
               type |-> IF t[1] = ListWithError THEN "list" ELSE "dict",
               has_error |-> t[1] \in { ObjWithError, ListWithError },
               error |-> IF t[1] = ObjWithError THEN << "bad config" >> ELSE << >> ]
        ELSE [ ok |-> FALSE, type |-> "none", has_error |-> FALSE, error |-> << >> ]

(***************************************************************************)
(* Discovery, smcp.py 96-234.  The plugins directory is None (there is no  *)
(* such directory) or Some(listing), the listing a sequence of entries in  *)
(* the order iterdir gives them.  subprocess.run ends in one of three      *)
(* ways: the process exits, the 10 seconds expire, or run raises.          *)
(***************************************************************************)
DirEntry(name, is_dir, has_cli) == [ name |-> name, is_dir |-> is_dir, has_cli |-> has_cli ]

\* any directory counts as a plugin
IsPluginAnyDir(entry) == entry.is_dir

\* smcp.py 114-116: a directory in which cli.py exists
IsPlugin(entry) == entry.is_dir /\ entry.has_cli

\* smcp.py 113-122: the plugins of a listing, in its order
RECURSIVE PluginsIn(_)
PluginsIn(listing) ==
    IF listing = << >> THEN << >>
    ELSE IF IsPlugin(Head(listing))
         THEN << Head(listing).name >> \o PluginsIn(Tail(listing))
         ELSE PluginsIn(Tail(listing))

\* smcp.py 96-127: the registry and the order of its keys
discover_plugins(plugins_dir) ==
    LET order == IF plugins_dir = None THEN << >> ELSE PluginsIn(plugins_dir[1])
    IN  [ order |-> order,
          registry |-> [ n \in { order[i] : i \in 1..Len(order) } |-> PathOf(n) ] ]

Exited(returncode, stdout) == [ kind |-> "exit", returncode |-> returncode, stdout |-> stdout ]
TimeoutExpired == [ kind |-> "timeout", returncode |-> 0, stdout |-> << >> ]
RunRaises == [ kind |-> "raises", returncode |-> 0, stdout |-> << >> ]

\* subprocess.run(..., text=True) returns a result: the process exited in
\* time and its output decodes
Completed(run) == run.kind = "exit" /\ Decodable(run.stdout)

\* command entries of a --describe document
Cmd(name) ==
    [ shape |-> "object", name |-> Some(name),
      description |-> [ kind |-> "absent", v |-> << >> ],
      parameters |-> [ kind |-> "absent", v |-> << >> ] ]

Param(name, type) ==
    [ shape |-> "object", name |-> name, type |-> [ kind |-> "string", v |-> type ],
      description |-> << >>, required |-> TRUE, default |-> None ]

CmdX == Cmd(<< "x" >>)
CmdConnect == Cmd(<< "connect" >>)
CmdDisconnect == Cmd(<< "disconnect" >>)
CmdNoName == [ Cmd(<< >>) EXCEPT !.name = None ]
CmdEmptyName == Cmd(<< >>)
\* an entry that is a JSON string
CmdString == [ Cmd(<< "list" >>) EXCEPT !.shape = "string" ]
\* "parameters": null
CmdNullParameters == [ Cmd(<< "y" >>) EXCEPT !.parameters = [ kind |-> "null", v |-> << >> ] ]
\* "parameters": ["host"]
CmdStringParameter ==
    [ Cmd(<< "y" >>) EXCEPT !.parameters =
        [ kind |-> "list", v |-> << [ Param(<< "host" >>, "string") EXCEPT !.shape = "string" ] >> ] ]
\* "parameters": [{"name": "n", "type": 5}]
CmdNumberType ==
    [ Cmd(<< "y" >>) EXCEPT !.parameters =
        [ kind |-> "list",
          v |-> << [ Param(<< "n" >>, "string") EXCEPT !.type = [ kind |-> "number", v |-> "5" ] ] >> ] ]
\* a command with a description and two parameters
CmdFull ==
    [ Cmd(<< "z" >>) EXCEPT !.description = [ kind |-> "string", v |-> << "does z" >> ],
                           !.parameters = [ kind |-> "list",
                                            v |-> << Param(<< "host" >>, "STRING"),
                                                     Param(<< "tags" >>, "Array") >> ] ]

\* a parsed JSON value as get_plugin_describe looks at it: its type, whether
\* "commands" in value holds (a key of an object, an element of an array, a
\* part of a string), whether value["commands"] is a list, and that list
Json(type, has_commands, is_list, commands) ==
    [ ok |-> TRUE, type |-> type, has_commands |-> has_commands,
      is_list |-> is_list, commands |-> commands ]

NotJson ==
    [ ok |-> FALSE, type |-> "none", has_commands |-> FALSE, is_list |-> FALSE,
      commands |-> << >> ]

WithCommands(commands) == Json("object", TRUE, TRUE, commands)

\* the JSON documents a plugin may print on --describe, each one symbol of
\* its output, and their values
DescribeDocs ==
    [ d \in { "5", "null", "\"commands\"", "[\"commands\"]", "[]", "{\"plugin\": {}}",
              "{\"commands\": {}}", "{\"commands\": []}", "{\"commands\": [x]}",
              "{\"commands\": [connect, x, disconnect]}", "{\"commands\": [{}, {\"name\": \"\"}, x]}",
              "{\"commands\": [x, \"list\"]}", "{\"commands\": [null-parameters]}",
              "{\"commands\": [string-parameter]}", "{\"commands\": [number-type]}",
              "{\"commands\": [z, x]}" } |->
        CASE d = "5" -> Json("number", FALSE, FALSE, << >>)
          [] d = "null" -> Json("null", FALSE, FALSE, << >>)
          [] d = "\"commands\"" -> Json("string", TRUE, FALSE, << >>)
          [] d = "[\"commands\"]" -> Json("array", TRUE, FALSE, << >>)
          [] d = "[]" -> Json("array", FALSE, FALSE, << >>)
          [] d = "{\"plugin\": {}}" -> Json("object", FALSE, FALSE, << >>)
          [] d = "{\"commands\": {}}" -> Json("object", TRUE, FALSE, << >>)
          [] d = "{\"commands\": []}" -> WithCommands(<< >>)
          [] d = "{\"commands\": [x]}" -> WithCommands(<< CmdX >>)
          [] d = "{\"commands\": [connect, x, disconnect]}" ->
                 WithCommands(<< CmdConnect, CmdX, CmdDisconnect >>)
          [] d = "{\"commands\": [{}, {\"name\": \"\"}, x]}" ->
                 WithCommands(<< CmdNoName, CmdEmptyName, CmdX >>)
          [] d = "{\"commands\": [x, \"list\"]}" -> WithCommands(<< CmdX, CmdString >>)
          [] d = "{\"commands\": [null-parameters]}" -> WithCommands(<< CmdNullParameters >>)
          [] d = "{\"commands\": [string-parameter]}" -> WithCommands(<< CmdStringParameter >>)
          [] d = "{\"commands\": [number-type]}" -> WithCommands(<< CmdNumberType >>)
          [] d = "{\"commands\": [z, x]}" -> WithCommands(<< CmdFull, CmdX >>) ]

\* json.loads(text) at 189: one JSON document, whitespace around it allowed
json_loads_describe(text) ==
    LET t == strip(text)
    IN  IF Len(t) = 1 /\ t[1] \in DOMAIN DescribeDocs THEN DescribeDocs[t[1]] ELSE NotJson

\* a describe tier that takes a document also when the plugin exits non-zero
get_plugin_describe_any_exit(run) ==
    IF ~Completed(run) THEN None
    ELSE LET spec == json_loads_describe(strip(run.stdout))
         IN  IF spec.ok /\ spec.type = "object" /\ spec.has_commands /\ spec.is_list
             THEN Some(spec)
             ELSE None

\* smcp.py 150-207: None, or Some(spec).  "commands" in spec raises
\* TypeError on a number and on null, spec["commands"] raises it on an array
\* and on a string; the handler at 205 takes both.
get_plugin_describe(run) ==
    IF ~Completed(run) THEN None
    ELSE IF run.returncode # 0 THEN None
    ELSE LET spec == json_loads_describe(strip(run.stdout))
         IN  IF ~spec.ok THEN None
             ELSE IF spec.type \in { "number", "null" } THEN None
             ELSE IF ~spec.has_commands THEN None
             ELSE IF spec.type # "object" THEN None
             ELSE IF spec.is_list THEN Some(spec)
             ELSE None

\* smcp.py 130-147
get_plugin_help(run) ==
    IF Completed(run) /\ run.returncode = 0 THEN run.stdout ELSE << >>

\* Python: text.split('\n')
RECURSIVE SplitLines(_)
SplitLines(text) ==
    IF Contains(text, << "\n" >>)
    THEN << Split1(text, << "\n" >>)[1] >> \o SplitLines(Split1(text, << "\n" >>)[2])
    ELSE << text >>

\* Python: text.split(): the runs of characters between whitespace
RECURSIVE split(_)
split(text) ==
    LET t == strip(text)
    IN  IF t = << >> THEN << >>
        ELSE IF \E i \in 1..Len(t) : t[i] \in Whitespace
             THEN LET i == CHOOSE i \in 1..Len(t) :
                               /\ t[i] \in Whitespace
                               /\ \A j \in 1..(i - 1) : t[j] \notin Whitespace
                  IN  << SubSeq(t, 1, i - 1) >> \o split(SubSeq(t, i, Len(t)))
             ELSE << t >>

\* Python: text.startswith(prefix)
StartsWith(text, prefix) == OccursAt(text, prefix, 1)

AvailableCommands == << "Available", " ", "commands:" >>

\* smcp.py 231
ReservedTokens == { << "usage:" >>, << "options:" >>, << "Available" >>, << "Examples:" >> }

\* a section that only a blank line ends
EndsSectionBlankOnly(stripped) == stripped = << >>

\* smcp.py 226: "not line.strip() or line.strip().startswith('Examples')",
\* on the words the model writes help texts with
EndsSection(stripped) ==
    \/ stripped = << >>
    \/ StartsWith(stripped, << "Examples" >>)
    \/ StartsWith(stripped, << "Examples:" >>)

\* smcp.py 220-232: the loop over the lines, with in_commands_section
RECURSIVE HelpLoop(_, _, _)
HelpLoop(lines, in_commands_section, commands) ==
    IF lines = << >> THEN commands
    ELSE LET line == Head(lines)
             stripped == strip(line)
             parts == split(line)
         IN  IF StartsWith(stripped, AvailableCommands)
             THEN HelpLoop(Tail(lines), TRUE, commands)
             ELSE IF ~in_commands_section
             THEN HelpLoop(Tail(lines), FALSE, commands)
             ELSE IF EndsSection(stripped)
             THEN HelpLoop(Tail(lines), FALSE, commands)
             ELSE IF /\ StartsWith(line, << " ", " " >>)
                     /\ parts # << >>
                     /\ parts[1] \notin ReservedTokens
             THEN HelpLoop(Tail(lines), TRUE, Append(commands, parts[1]))
             ELSE HelpLoop(Tail(lines), TRUE, commands)

\* smcp.py 210-234
parse_commands_from_help(help_text) == HelpLoop(SplitLines(help_text), FALSE, << >>)

\* the help text of a plugin with these commands
RECURSIVE CommandLines(_)
CommandLines(commands) ==
    IF commands = << >> THEN << >>
    ELSE << " ", " " >> \o Head(commands) \o << " ", "does", "\n" >>
             \o CommandLines(Tail(commands))

HelpText(commands) ==
    << "usage:", " ", "cli", "\n", "\n" >> \o AvailableCommands \o << "\n" >>
        \o CommandLines(commands) \o << "\n", "Examples:", "\n", " ", " ", "baz", "\n" >>

\* smcp.py 540: the commands that are not made tools
Redundant == { << "connect" >>, << "disconnect" >> }

\* smcp.py 540
Skip(command_name) == command_name \in Redundant

\* an entry counts as nameless only when it has no "name" key
NamelessMissingOnly(command_spec) == command_spec.name = None

\* smcp.py 534-535: "not command_name" holds for a missing name (.get gives
\* None) and for the empty string
Nameless(command_spec) == command_spec.name = None \/ command_spec.name = Some(<< >>)

\* smcp.py 533-550: the loop over the commands of a --describe document.
\* command_spec.get raises on an entry that is no object (534).
RECURSIVE DescribeLoop(_, _, _)
DescribeLoop(plugin_name, commands, tools) ==
    IF commands = << >> THEN [ raised |-> FALSE, tools |-> tools ]
    ELSE LET command_spec == Head(commands)
         IN  IF command_spec.shape # "object"
             THEN [ raised |-> TRUE, tools |-> tools ]
             ELSE IF Nameless(command_spec)
             THEN DescribeLoop(plugin_name, Tail(commands), tools)
             ELSE IF Skip(command_spec.name[1])
             THEN DescribeLoop(plugin_name, Tail(commands), tools)
             ELSE LET made == create_tool_from_plugin(plugin_name, command_spec.name[1],
                                                      Some(command_spec))
                  IN  IF made.raised
                      THEN [ raised |-> TRUE, tools |-> tools ]
                      ELSE DescribeLoop(plugin_name, Tail(commands),
                                        Append(tools, made.tool))

\* a test that also sends a spec without commands to the help tier
FallsBackWithoutCommands(plugin_spec) ==
    plugin_spec = None \/ plugin_spec[1].commands = << >>

\* smcp.py 528/551: "if plugin_spec" fails.  A spec is a mapping with the
\* key "commands", which is never empty, so only None fails.
FallsBack(plugin_spec) == plugin_spec = None

\* smcp.py 562-568: the loop over the commands of the help text
HelpTools(plugin_name, commands) ==
    [ i \in 1..Len(commands) |-> create_tool_from_plugin(plugin_name, commands[i], None).tool ]

(***************************************************************************)
(* Outcomes of execute_plugin_tool: a returned text with the counter       *)
(* increments made on the way to the return statement, or an exception     *)
(* leaving the function.                                                   *)
(***************************************************************************)
Return(kind, text, succ, err) ==
    [ raised |-> FALSE, kind |-> kind, text |-> text, succ |-> succ, err |-> err ]

Raise(exc) ==
    [ raised |-> TRUE, kind |-> "raised", text |-> exc, succ |-> 0, err |-> 0 ]

\* smcp.py 246/252
InvalidFormat(tool_name) ==
    Return("invalid_format",
           << "Invalid tool name format", ": " >> \o tool_name
              \o << ". Expected 'plugin__command' or 'plugin.command'" >>,
           0, 0)

\* smcp.py 255
PluginNotFound(plugin_name) ==
    Return("not_found", << "Plugin '" >> \o plugin_name \o << "' ", "not found" >>, 0, 0)

\* a handler that lets the exception go on to the caller
ExceptExceptionReraise(tool_name, e) == Raise(e)

\* a handler that counts the error and then lets the exception go on
ExceptExceptionCountAndRaise(tool_name, e) ==
    [ raised |-> TRUE, kind |-> "raised", text |-> e, succ |-> 0, err |-> 1 ]

\* smcp.py 394-398: except Exception as e
ExceptException(tool_name, e) ==
    Return("exception", << "Error executing tool", " " >> \o tool_name \o << ": ", e >>, 0, 1)

\* smcp.py 369-371
TimeoutReturn ==
    Return("timeout",
           << "Plugin command timed out", " after ", ToString(timeout_seconds), " seconds" >>,
           0, 1)

\* smcp.py 352-357; [:200] keeps the first 200 characters
Preview(text) == Take(text, 200)

PartialReturn(partial_stdout, stderr) ==
    Return("timeout_partial",
           << "Plugin command timed out", ". Partial output: " >> \o Preview(partial_stdout)
              \o (IF stderr # << >> THEN << " Stderr: " >> \o Preview(stderr) ELSE << >>),
           0, 1)

\* a success branch that returns the output as it was printed
ClassifySuccessUntrimmed(tool_name, stdout) ==
    IF Decodable(stdout)
    THEN Return("success", stdout, 1, 0)
    ELSE Return("exception", << "Error executing tool", " " >> \o tool_name
                                \o << ": ", "UnicodeDecodeError" >>, 0, 1)

\* smcp.py 373-376
ClassifySuccess(tool_name, stdout) ==
    IF Decodable(stdout)
    THEN Return("success", strip(stdout), 1, 0)
    ELSE ExceptException(tool_name, "UnicodeDecodeError")

\* a failure branch that reports the whole output even when it is a JSON
\* document with an error field
ClassifyFailureRawOnly(tool_name, returncode, stdout) ==
    IF stdout # << >>
    THEN IF ~Decodable(stdout)
         THEN Return("exception", << "Error executing tool", " " >> \o tool_name
                                     \o << ": ", "UnicodeDecodeError" >>, 0, 1)
         ELSE LET text == strip(stdout)
              IN  Return("exit_error",
                         << "Error: " >> \o (IF text # << >> THEN text
                                             ELSE << "Plugin exited with code ",
                                                     ToString(returncode) >>),
                         0, 1)
    ELSE Return("exit_error",
                << "Error: ", "Plugin exited with code ", ToString(returncode), " (no output)" >>,
                0, 1)

\* smcp.py 377-392
ClassifyFailure(tool_name, returncode, stdout) ==
    IF stdout # << >>
    THEN IF ~Decodable(stdout)
         THEN \* 382 raises, the bare except at 387 runs 388, which raises again
              ExceptException(tool_name, "UnicodeDecodeError")
         ELSE LET text == strip(stdout)
                  error_data == json_loads(text)
                  \* 388, reached from the bare except at 387
                  fallback ==
                      IF text # << >>
                      THEN text
                      ELSE << "Plugin exited with code ", ToString(returncode) >>
                  \* 383-386; "error" in a list is followed by a TypeError
                  \* at the subscript of 384
                  error_msg ==
                      IF ~error_data.ok
                      THEN fallback
                      ELSE IF error_data.has_error
                           THEN IF error_data.type = "dict"
                                THEN error_data.error
                                ELSE fallback
                           ELSE text
              IN  Return("exit_error", << "Error: " >> \o error_msg, 0, 1)
    ELSE Return("exit_error",
                << "Error: ", "Plugin exited with code ", ToString(returncode), " (no output)" >>,
                0, 1)

ClassifyResult(tool_name, returncode, stdout) ==
    IF returncode = 0
    THEN ClassifySuccess(tool_name, stdout)
    ELSE ClassifyFailure(tool_name, returncode, stdout)

\* smcp.py 586-594: what call_tool_handler makes of the outcome
call_tool_handler(outcome) ==
    IF outcome.raised
    THEN [ kind |-> "handler_error",
           text |-> << "Tool execution failed: ", outcome.text >>,
           succ |-> outcome.succ, err |-> outcome.err + 1 ]
    ELSE [ kind |-> outcome.kind, text |-> outcome.text,
           succ |-> outcome.succ, err |-> outcome.err ]

(***************************************************************************)
(* State.                                                                  *)
(***************************************************************************)
VARIABLES
    launch,           \* how the server was started and the host it binds to
    metrics,          \* the module-level counters
    plugin_root,      \* the plugins directory on disk: None, or Some(listing)
    plugin_registry,  \* plugin name -> cli path
    all_tools,        \* the list all_tools of the latest register_plugin_tools
    reg,              \* register_plugin_tools: where it stands, what it invoked
    active,           \* the calls a client makes in this run
    now,              \* the clock, in seconds
    pc,               \* where each call stands
    tool,             \* tool_name of each call
    call_arguments,   \* arguments of each call
    cmd_args,         \* the command line each call built
    spawn_calls,      \* create_subprocess_exec calls each call made
    process,          \* the subprocess: state, exit status, returncode, signals sent,
                      \* whether it exited by itself before the deadline
    plugin,           \* what the plugin prints and how far it got
    pipe,             \* the two pipes: buffered data, write end open
    reader,           \* read_stdout / read_stderr of read_output
    closure,          \* stdout_data / stderr_data of read_output
    locals,           \* stdout / stderr of execute_plugin_tool
    deadline,         \* when wait_for(read_output(), 300) expires
    result            \* what call_tool_handler returned

vars == << launch, metrics, plugin_root, plugin_registry, all_tools, reg, active, now, pc, tool, call_arguments, cmd_args, spawn_calls,
           process, plugin, pipe, reader, closure, locals, deadline, result >>

\* what async_main and register_plugin_tools leave behind
startup == << launch, plugin_root, plugin_registry, all_tools, reg >>

(***************************************************************************)
(* The entry points: parse_arguments and the choice of the host in         *)
(* async_main of smcp.py and smcp_animus.py and in main of                 *)
(* smcp/mcp_server.py.  A launch is the entry point, the command line      *)
(* (--allow-external, --host), the environment (MCP_HOST) and, once the    *)
(* entry point has chosen it, the host handed to the transport.            *)
(***************************************************************************)
Loopback == "127.0.0.1"
AllInterfaces == "0.0.0.0"

EntryPoints == { "smcp.py", "smcp_animus.py", "smcp/mcp_server.py" }

\* the hosts of a --host option and of MCP_HOST
Hosts == { Loopback, AllInterfaces, "192.168.1.5" }

Launch(entry_point, allow_external, host_option, MCP_HOST, host) ==
    [ entry_point |-> entry_point, allow_external |-> allow_external,
      host_option |-> host_option, MCP_HOST |-> MCP_HOST, host |-> host ]

\* smcp.py 632-637, smcp_animus.py 320-325: args.host is the option, else
\* MCP_HOST, else 127.0.0.1
args_host(host_option, MCP_HOST) ==
    IF host_option # None THEN host_option[1]
    ELSE IF MCP_HOST # None THEN MCP_HOST[1]
    ELSE Loopback

\* smcp.py 645-651, smcp_animus.py 334-341
host_of_async_main(allow_external, host_option, MCP_HOST) ==
    IF allow_external THEN AllInterfaces ELSE args_host(host_option, MCP_HOST)

\* smcp/mcp_server.py 509-531: --host has no default and MCP_HOST is not
\* read
host_of_main(allow_external, host_option) ==
    IF host_option # None THEN host_option[1]
    ELSE IF allow_external THEN AllInterfaces
    ELSE AllInterfaces

\* smcp.py started without options
Started == Launch("smcp.py", FALSE, None, None, Some(Loopback))

NoProcess ==
    [ state |-> "none", status |-> None, returncode |-> None, signals |-> << >>,
      in_time |-> FALSE ]
NoPlugin == [ stdout |-> << >>, stderr |-> << >>, written |-> [ s \in Streams |-> 0 ] ]
NoPipe == [ s \in Streams |-> [ buf |-> << >>, open |-> FALSE ] ]
NoResult == [ kind |-> "none", text |-> << >> ]

\* all_tools after the discovery of RegistryAfterDiscovery: the tool p__c
ToolsAfterDiscovery == HelpTools(Str_p, parse_commands_from_help(HelpText(<< Str_c >>)))

\* smcp.py 43-50
NoMetrics ==
    [ plugins_discovered |-> 0, tools_registered |-> 0,
      tool_calls_total |-> 0, tool_calls_success |-> 0, tool_calls_error |-> 0 ]

\* an entry of the log of register_plugin_tools: the plugin was invoked
\* with the directive, subprocess.run ended this way, the tier yielded null
\* or not, and these commands were made tools; commands holds the command
\* entries of the spec the describe tier yielded
Invoked(plugin_name, tier, run, null, found) ==
    [ plugin |-> plugin_name, tier |-> tier, run |-> run, null |-> null, found |-> found,
      commands |-> << >> ]

\* register_plugin_tools has returned: the handlers are registered, and
\* list_tools_handler returns the list it closed over
Registered(log, tools) ==
    [ pc |-> "done", pending |-> << >>, log |-> log, handlers |-> TRUE, list_tools |-> tools ]

\* nothing is in flight
Quiet ==
    /\ now = 0
    /\ pc = [ c \in Calls |-> "idle" ]
    /\ tool = [ c \in Calls |-> << >> ]
    /\ call_arguments = [ c \in Calls |-> << >> ]
    /\ cmd_args = [ c \in Calls |-> << >> ]
    /\ spawn_calls = [ c \in Calls |-> 0 ]
    /\ process = [ c \in Calls |-> NoProcess ]
    /\ plugin = [ c \in Calls |-> NoPlugin ]
    /\ pipe = [ c \in Calls |-> NoPipe ]
    /\ reader = [ c \in Calls |-> [ s \in Streams |-> "idle" ] ]
    /\ closure = [ c \in Calls |-> [ s \in Streams |-> << >> ] ]
    /\ locals = [ c \in Calls |-> [ s \in Streams |-> Unbound ] ]
    /\ deadline = [ c \in Calls |-> 0 ]
    /\ result = [ c \in Calls |-> NoResult ]

\* the server after startup with the plugin p, whose --describe is not
\* supported and whose help text names the command c
InitWith(calls) ==
    /\ metrics = [ NoMetrics EXCEPT !.plugins_discovered = 1, !.tools_registered = 1 ]
    /\ plugin_root = Some(<< DirEntry(Str_p, TRUE, TRUE) >>)
    /\ plugin_registry = RegistryAfterDiscovery
    /\ all_tools = ToolsAfterDiscovery
    /\ reg = Registered(<< Invoked(Str_p, "--describe", Exited(2, << >>), TRUE, << >>),
                           Invoked(Str_p, "--help", Exited(0, HelpText(<< Str_c >>)),
                                   FALSE, << Str_c >>) >>,
                        ToolsAfterDiscovery)
    /\ launch = Started
    /\ active = calls
    /\ Quiet

Init == InitWith({ "c1" })

\* a lookup that takes the path the discovery would have given the plugin
ResolveUnchecked(plugin_name) ==
    [ found |-> TRUE, cli_path |-> << "plugins/" >> \o plugin_name \o << "/cli.py" >> ]

\* smcp.py 254-258: the plugin's entry in the registry
Resolve(plugin_name) ==
    IF plugin_name \in DOMAIN plugin_registry
    THEN [ found |-> TRUE, cli_path |-> plugin_registry[plugin_name] ]
    ELSE [ found |-> FALSE, cli_path |-> << >> ]

\* a return that writes the counters back as they were when the server
\* started, plus its own increment
FinishStale(c, outcome, m) ==
    LET h == call_tool_handler(outcome)
    IN  /\ pc' = [ pc EXCEPT ![c] = "done" ]
        /\ result' = [ result EXCEPT ![c] = [ kind |-> h.kind, text |-> h.text ] ]
        /\ metrics' = [ m EXCEPT !.tool_calls_success = h.succ,
                                 !.tool_calls_error = h.err ]

\* a return that writes a fresh table of counters holding the call counters
FinishFromScratch(c, outcome, m) ==
    LET h == call_tool_handler(outcome)
    IN  /\ pc' = [ pc EXCEPT ![c] = "done" ]
        /\ result' = [ result EXCEPT ![c] = [ kind |-> h.kind, text |-> h.text ] ]
        /\ metrics' = [ NoMetrics EXCEPT !.tool_calls_total = m.tool_calls_total,
                                         !.tool_calls_success = m.tool_calls_success + h.succ,
                                         !.tool_calls_error = m.tool_calls_error + h.err ]

\* the call returns: call_tool_handler wraps the outcome; m is the metrics
\* as the step found or already changed them
Finish(c, outcome, m) ==
    LET h == call_tool_handler(outcome)
    IN  /\ pc' = [ pc EXCEPT ![c] = "done" ]
        /\ result' = [ result EXCEPT ![c] = [ kind |-> h.kind, text |-> h.text ] ]
        /\ metrics' = [ m EXCEPT !.tool_calls_success = @ + h.succ,
                                 !.tool_calls_error = @ + h.err ]

(***************************************************************************)
(* call_tool_handler 580-587 and execute_plugin_tool 239-294: everything   *)
(* up to the first suspension point, the await of create_subprocess_exec.  *)
(***************************************************************************)
\* a handler that leaves tool_calls_total as it is
CallToolUncounted(c, tool_name, arguments) ==
    /\ reg.handlers
    /\ c \in active
    /\ pc[c] = "idle"
    /\ tool' = [ tool EXCEPT ![c] = tool_name ]
    /\ call_arguments' = [ call_arguments EXCEPT ![c] = arguments ]
    /\ LET m == metrics
           parsed == ParseToolName(tool_name)
       IN  IF ~parsed.ok
           THEN /\ Finish(c, InvalidFormat(tool_name), m)
                /\ UNCHANGED << cmd_args, spawn_calls >>
           ELSE IF ~Resolve(parsed.plugin_name).found
           THEN /\ Finish(c, PluginNotFound(parsed.plugin_name), m)
                /\ UNCHANGED << cmd_args, spawn_calls >>
           ELSE /\ cmd_args' = [ cmd_args EXCEPT ![c] =
                        BuildCmdArgs(Resolve(parsed.plugin_name).cli_path,
                                     parsed.command, arguments) ]
                /\ spawn_calls' = [ spawn_calls EXCEPT ![c] = @ + 1 ]
                /\ pc' = [ pc EXCEPT ![c] = "spawn" ]
                /\ metrics' = m
                /\ UNCHANGED result
    /\ UNCHANGED << startup, active, now, process, plugin, pipe, reader,
                    closure, locals, deadline >>

\* 585 counts the call, then execute_plugin_tool runs
CallTool(c, tool_name, arguments) ==
    /\ reg.handlers
    /\ c \in active
    /\ pc[c] = "idle"
    /\ tool' = [ tool EXCEPT ![c] = tool_name ]
    /\ call_arguments' = [ call_arguments EXCEPT ![c] = arguments ]
    /\ LET m == [ metrics EXCEPT !.tool_calls_total = @ + 1 ]
           parsed == ParseToolName(tool_name)
       IN  IF ~parsed.ok
           THEN /\ Finish(c, InvalidFormat(tool_name), m)
                /\ UNCHANGED << cmd_args, spawn_calls >>
           ELSE IF ~Resolve(parsed.plugin_name).found
           THEN /\ Finish(c, PluginNotFound(parsed.plugin_name), m)
                /\ UNCHANGED << cmd_args, spawn_calls >>
           ELSE /\ cmd_args' = [ cmd_args EXCEPT ![c] =
                        BuildCmdArgs(Resolve(parsed.plugin_name).cli_path,
                                     parsed.command, arguments) ]
                /\ spawn_calls' = [ spawn_calls EXCEPT ![c] = @ + 1 ]
                /\ pc' = [ pc EXCEPT ![c] = "spawn" ]
                /\ metrics' = m
                /\ UNCHANGED result
    /\ UNCHANGED << startup, active, now, process, plugin, pipe, reader,
                    closure, locals, deadline >>

(***************************************************************************)
(* 294-338: the spawn returns a process; wait_for arms the deadline and    *)
(* read_output starts both readers with asyncio.gather.                    *)
(***************************************************************************)
gather == [ s \in Streams |-> "reading" ]

\* readers run one after the other: stderr is read once stdout has ended
CanReadInTurn(c, s) ==
    /\ reader[c][s] = "reading"
    /\ s = "stderr" => reader[c]["stdout"] = "eof"

\* a reader runs only while no other call is reading
CanReadAlone(c, s) ==
    /\ reader[c][s] = "reading"
    /\ \A d \in Calls \ { c } : pc[d] # "reading"

\* the reader of stream s is scheduled and reads when data or EOF arrives
CanRead(c, s) == reader[c][s] = "reading"

SpawnOk(c, out, err) ==
    /\ pc[c] = "spawn"
    /\ process' = [ process EXCEPT ![c] =
            [ state |-> "running", status |-> None, returncode |-> None, signals |-> << >>,
              in_time |-> FALSE ] ]
    /\ plugin' = [ plugin EXCEPT ![c] =
            [ stdout |-> out, stderr |-> err, written |-> [ s \in Streams |-> 0 ] ] ]
    /\ pipe' = [ pipe EXCEPT ![c] = [ s \in Streams |-> [ buf |-> << >>, open |-> TRUE ] ] ]
    /\ reader' = [ reader EXCEPT ![c] = gather ]
    /\ deadline' = [ deadline EXCEPT ![c] = now + timeout_seconds ]
    /\ pc' = [ pc EXCEPT ![c] = "reading" ]
    /\ UNCHANGED << metrics, startup, active, now, tool, call_arguments, cmd_args, spawn_calls,
                    closure, locals, result >>

\* a failed spawn that is tried again
SpawnRaisesRetry(c) ==
    /\ pc[c] = "spawn"
    /\ spawn_calls[c] < 3
    /\ spawn_calls' = [ spawn_calls EXCEPT ![c] = @ + 1 ]
    /\ UNCHANGED << metrics, startup, active, now, pc, tool, call_arguments, cmd_args,
                    process, plugin, pipe, reader, closure, locals, deadline, result >>

\* create_subprocess_exec raises (no such interpreter, no memory, ...)
SpawnRaises(c) ==
    /\ pc[c] = "spawn"
    /\ Finish(c, ExceptException(tool[c], "OSError"), metrics)
    /\ UNCHANGED << startup, active, now, tool, call_arguments, cmd_args, spawn_calls, process,
                    plugin, pipe, reader, closure, locals, deadline >>

(***************************************************************************)
(* The environment: the plugin process, its descendants and the kernel.    *)
(* It is followed until the call returns.                                  *)
(***************************************************************************)
Doc(c, s) == IF s = "stdout" THEN plugin[c].stdout ELSE plugin[c].stderr

WrittenAll(c) == \A s \in Streams : plugin[c].written[s] = Len(Doc(c, s))

\* the plugin is in a write to a full pipe
Blocked(c, s) ==
    /\ process[c].state = "running"
    /\ plugin[c].written[s] < Len(Doc(c, s))
    /\ Len(pipe[c][s].buf) >= PipeCap

PluginWrite(c, s) ==
    /\ pc[c] # "done"
    /\ process[c].state = "running"
    /\ plugin[c].written[s] < Len(Doc(c, s))
    /\ Len(pipe[c][s].buf) < PipeCap
    /\ pipe' = [ pipe EXCEPT ![c][s].buf = Append(@, Doc(c, s)[plugin[c].written[s] + 1]) ]
    /\ plugin' = [ plugin EXCEPT ![c].written[s] = @ + 1 ]
    /\ UNCHANGED << metrics, startup, active, now, pc, tool, call_arguments, cmd_args, spawn_calls,
                    process, reader, closure, locals, deadline, result >>

\* the write ends of the streams in held stay open in a descendant process
CloseWriteEnds(c, held) ==
    [ pipe EXCEPT ![c] = [ s \in Streams |-> [ pipe[c][s] EXCEPT !.open = (s \in held) ] ] ]

\* the plugin has printed everything and exits with its exit code; in_time
\* keeps whether it did so before the deadline of the call
PluginExit(c, code, held) ==
    /\ pc[c] # "done"
    /\ process[c].state = "running"
    /\ WrittenAll(c)
    /\ process' = [ process EXCEPT ![c].state = "exited", ![c].status = Some(code),
                                   ![c].in_time = now < deadline[c] ]
    /\ pipe' = CloseWriteEnds(c, held)
    /\ UNCHANGED << metrics, startup, active, now, pc, tool, call_arguments, cmd_args, spawn_calls,
                    plugin, reader, closure, locals, deadline, result >>

\* a signal sent to the plugin ends it
Die(c, held) ==
    /\ pc[c] # "done"
    /\ process[c].state = "running"
    /\ process[c].signals # << >>
    /\ process' = [ process EXCEPT ![c].state = "exited", ![c].status = Some(-9) ]
    /\ pipe' = CloseWriteEnds(c, held)
    /\ UNCHANGED << metrics, startup, active, now, pc, tool, call_arguments, cmd_args, spawn_calls,
                    plugin, reader, closure, locals, deadline, result >>

\* the descendants holding write ends exit
DescendantClose(c) ==
    /\ pc[c] # "done"
    /\ process[c].state = "exited"
    /\ \E s \in Streams : pipe[c][s].open
    /\ pipe' = CloseWriteEnds(c, { })
    /\ UNCHANGED << metrics, startup, active, now, pc, tool, call_arguments, cmd_args, spawn_calls,
                    process, plugin, reader, closure, locals, deadline, result >>

\* the event loop's child watcher collects the exit status: returncode is set
Reap(c) ==
    /\ pc[c] # "done"
    /\ process[c].state = "exited"
    /\ process[c].returncode = None
    /\ process' = [ process EXCEPT ![c].returncode = process[c].status ]
    /\ UNCHANGED << metrics, startup, active, now, pc, tool, call_arguments, cmd_args, spawn_calls,
                    plugin, pipe, reader, closure, locals, deadline, result >>

(***************************************************************************)
(* read_output, 303-332.                                                   *)
(***************************************************************************)
\* one turn of the loop of read_stdout / read_stderr: a chunk, or EOF
ReadChunk(c, s) ==
    /\ pc[c] = "reading"
    /\ CanRead(c, s)
    /\ pipe[c][s].buf # << >> \/ ~pipe[c][s].open
    /\ IF pipe[c][s].buf # << >>
       THEN /\ closure' = [ closure EXCEPT ![c][s] = @ \o Take(pipe[c][s].buf, ReadSize) ]
            /\ pipe' = [ pipe EXCEPT ![c][s].buf = Drop(@, ReadSize) ]
            /\ UNCHANGED reader
       ELSE /\ reader' = [ reader EXCEPT ![c][s] = "eof" ]
            /\ UNCHANGED << closure, pipe >>
    /\ UNCHANGED << metrics, startup, active, now, pc, tool, call_arguments, cmd_args, spawn_calls,
                    process, plugin, locals, deadline, result >>

\* a stream read raises: gather, read_output and wait_for pass it on to 394
ReadRaises(c, s) ==
    /\ pc[c] = "reading"
    /\ reader[c][s] = "reading"
    /\ Finish(c, ExceptException(tool[c], "read failed"), metrics)
    /\ UNCHANGED << startup, active, now, tool, call_arguments, cmd_args, spawn_calls, process,
                    plugin, pipe, reader, closure, locals, deadline >>

AllEof(c) == \A s \in Streams : reader[c][s] = "eof"

\* a classification that runs as soon as the exit is observed, the streams
\* drained or not
ClassifyOnExit(c) ==
    /\ pc[c] = "reading"
    /\ process[c].returncode # None
    /\ locals' = [ locals EXCEPT ![c] = [ s \in Streams |-> Some(closure[c][s]) ] ]
    /\ Finish(c, ClassifyResult(tool[c], process[c].returncode[1], closure[c]["stdout"]), metrics)
    /\ UNCHANGED << startup, active, now, tool, call_arguments, cmd_args, spawn_calls, process,
                    plugin, pipe, reader, closure, deadline >>

\* a classification that reports the trimmed stderr of a non-zero exit
ClassifyReportsStderr(c) ==
    /\ pc[c] = "reading"
    /\ AllEof(c)
    /\ process[c].returncode # None
    /\ locals' = [ locals EXCEPT ![c] = [ s \in Streams |-> Some(closure[c][s]) ] ]
    /\ Finish(c,
              IF process[c].returncode[1] = 0
              THEN ClassifySuccess(tool[c], closure[c]["stdout"])
              ELSE Return("exit_error", << "Error: " >> \o strip(closure[c]["stderr"]), 0, 1),
              metrics)
    /\ UNCHANGED << startup, active, now, tool, call_arguments, cmd_args, spawn_calls, process,
                    plugin, pipe, reader, closure, deadline >>

\* 330-338 and 373-392: process.wait() returns, read_output returns the data,
\* wait_for returns it, stdout and stderr are bound and the result is classified
Classify(c) ==
    /\ pc[c] = "reading"
    /\ AllEof(c)
    /\ process[c].returncode # None
    /\ locals' = [ locals EXCEPT ![c] = [ s \in Streams |-> Some(closure[c][s]) ] ]
    /\ Finish(c, ClassifyResult(tool[c], process[c].returncode[1], closure[c]["stdout"]), metrics)
    /\ UNCHANGED << startup, active, now, tool, call_arguments, cmd_args, spawn_calls, process,
                    plugin, pipe, reader, closure, deadline >>

(***************************************************************************)
(* The timeout path, 339-371.                                              *)
(***************************************************************************)
\* process.terminate(): the graceful signal
Terminate(p) == [ p EXCEPT !.signals = Append(@, "SIGTERM") ]

\* process.kill()
Kill(p) == [ p EXCEPT !.signals = Append(@, "SIGKILL") ]

\* a wait_for that may give up before its deadline
TimeoutAnyTime(c) ==
    /\ pc[c] = "reading"
    /\ reader' = [ reader EXCEPT ![c] = [ s \in Streams |-> "cancelled" ] ]
    /\ closure' = [ closure EXCEPT ![c] = [ s \in Streams |-> << >> ] ]
    /\ IF process[c].returncode = None
       THEN /\ process' = [ process EXCEPT ![c] = Kill(@) ]
            /\ pc' = [ pc EXCEPT ![c] = "kill_wait" ]
       ELSE /\ pc' = [ pc EXCEPT ![c] = "salvage" ]
            /\ UNCHANGED process
    /\ UNCHANGED << metrics, startup, active, now, tool, call_arguments, cmd_args, spawn_calls,
                    plugin, pipe, locals, deadline, result >>

\* 339-344: the deadline expires, wait_for cancels read_output (its
\* stdout_data and stderr_data go with it) and raises TimeoutError
Timeout(c) ==
    /\ pc[c] = "reading"
    /\ now >= deadline[c]
    /\ reader' = [ reader EXCEPT ![c] = [ s \in Streams |-> "cancelled" ] ]
    /\ closure' = [ closure EXCEPT ![c] = [ s \in Streams |-> << >> ] ]
    /\ IF process[c].returncode = None
       THEN /\ process' = [ process EXCEPT ![c] = Kill(@) ]
            /\ pc' = [ pc EXCEPT ![c] = "kill_wait" ]
       ELSE /\ pc' = [ pc EXCEPT ![c] = "salvage" ]
            /\ UNCHANGED process
    /\ UNCHANGED << metrics, startup, active, now, tool, call_arguments, cmd_args, spawn_calls,
                    plugin, pipe, locals, deadline, result >>

\* 344: process.wait() returns within the grace period
KillWaitDone(c) ==
    /\ pc[c] = "kill_wait"
    /\ process[c].returncode # None
    /\ pc' = [ pc EXCEPT ![c] = "salvage" ]
    /\ UNCHANGED << metrics, startup, active, now, tool, call_arguments, cmd_args, spawn_calls,
                    process, plugin, pipe, reader, closure, locals, deadline, result >>

\* 345-346: the grace period expires, the TimeoutError is passed over
GraceExpired(c) ==
    /\ pc[c] = "kill_wait"
    /\ process[c].returncode = None
    /\ now >= deadline[c] + GraceSeconds
    /\ pc' = [ pc EXCEPT ![c] = "salvage" ]
    /\ UNCHANGED << metrics, startup, active, now, tool, call_arguments, cmd_args, spawn_calls,
                    process, plugin, pipe, reader, closure, locals, deadline, result >>

\* 348-371.  process.stdout.read() returns what is buffered once it sees
\* EOF; without EOF its 0.1 s expire (the clock does not count them) and
\* what it took from the buffer is gone.  With partial output in hand, 352
\* evaluates stderr, which is bound only if wait_for returned at 335:
\* unbound, it raises UnboundLocalError into the bare except of 358.
\* From there: raise at 360, the handler at 361, the second kill, and
\* process.wait() without a deadline.
Salvage(c) ==
    /\ pc[c] = "salvage"
    /\ LET eof == ~pipe[c]["stdout"].open
           partial_stdout == IF eof THEN pipe[c]["stdout"].buf ELSE << >>
       IN  /\ pipe' = [ pipe EXCEPT ![c]["stdout"].buf = << >> ]
           /\ IF partial_stdout # << >> /\ locals[c]["stderr"] # Unbound
              THEN /\ Finish(c, PartialReturn(partial_stdout, locals[c]["stderr"][1]), metrics)
                   /\ UNCHANGED process
              ELSE IF process[c].returncode = None
              THEN /\ process' = [ process EXCEPT ![c] = Kill(@) ]
                   /\ pc' = [ pc EXCEPT ![c] = "outer_wait" ]
                   /\ UNCHANGED << metrics, result >>
              ELSE /\ Finish(c, TimeoutReturn, metrics)
                   /\ UNCHANGED process
    /\ UNCHANGED << startup, active, now, tool, call_arguments, cmd_args, spawn_calls, plugin,
                    reader, closure, locals, deadline >>

\* 366-371: process.wait() returns
OuterWaitDone(c) ==
    /\ pc[c] = "outer_wait"
    /\ process[c].returncode # None
    /\ Finish(c, TimeoutReturn, metrics)
    /\ UNCHANGED << startup, active, now, tool, call_arguments, cmd_args, spawn_calls, process,
                    plugin, pipe, reader, closure, locals, deadline >>

\* process.wait() raises: at 330 and at 344 the exception reaches 394, at
\* 366 the bare except of 367 passes it over
WaitRaises(c) ==
    /\ \/ pc[c] = "reading" /\ AllEof(c)
       \/ pc[c] \in { "kill_wait", "outer_wait" }
    /\ IF pc[c] = "outer_wait"
       THEN Finish(c, TimeoutReturn, metrics)
       ELSE Finish(c, ExceptException(tool[c], "wait failed"), metrics)
    /\ UNCHANGED << startup, active, now, tool, call_arguments, cmd_args, spawn_calls, process,
                    plugin, pipe, reader, closure, locals, deadline >>

(***************************************************************************)
(* Time.                                                                   *)
(***************************************************************************)
\* a step of the engine is runnable for call c
EngineReady(c) ==
    \/ pc[c] = "spawn"
    \/ pc[c] = "salvage"
    \/ /\ pc[c] = "reading"
       /\ \/ \E s \in Streams : CanRead(c, s) /\ (pipe[c][s].buf # << >> \/ ~pipe[c][s].open)
          \/ AllEof(c) /\ process[c].returncode # None
          \/ now >= deadline[c]
    \/ /\ pc[c] = "kill_wait"
       /\ process[c].returncode # None \/ now >= deadline[c] + GraceSeconds
    \/ pc[c] = "outer_wait" /\ process[c].returncode # None

\* when the timer call c waits on expires; MaxTime when it waits on none
TimerOf(c) ==
    IF pc[c] = "reading" THEN deadline[c]
    ELSE IF pc[c] = "kill_wait" THEN deadline[c] + GraceSeconds
    ELSE MaxTime

Tick ==
    /\ \A c \in Calls : ~EngineReady(c)
    /\ \E c \in Calls : pc[c] \notin { "idle", "done" }
    /\ LET next == CHOOSE t \in { TimerOf(c) : c \in Calls } :
                       \A c \in Calls : t <= TimerOf(c)
           to == Min(now + TickStep, next)
       IN  /\ to > now
           /\ to <= MaxTime
           /\ now' = to
    /\ UNCHANGED << metrics, startup, active, pc, tool, call_arguments, cmd_args, spawn_calls,
                    process, plugin, pipe, reader, closure, locals, deadline, result >>

Next ==
    \/ \E c \in Calls : \E n \in CallNames, a \in ArgMaps : CallTool(c, n, a)
    \/ \E c \in Calls : \E out \in Docs, err \in ErrDocs : SpawnOk(c, out, err)
    \/ \E c \in Calls : SpawnRaises(c)
    \/ \E c \in Calls, s \in Streams : PluginWrite(c, s)
    \/ \E c \in Calls : \E code \in ExitCodes, held \in SUBSET Streams : PluginExit(c, code, held)
    \/ \E c \in Calls : \E held \in SUBSET Streams : Die(c, held)
    \/ \E c \in Calls : DescendantClose(c)
    \/ \E c \in Calls : Reap(c)
    \/ \E c \in Calls, s \in Streams : ReadChunk(c, s)
    \/ \E c \in Calls, s \in Streams : ReadRaises(c, s)
    \/ \E c \in Calls : Classify(c)
    \/ \E c \in Calls : Timeout(c)
    \/ \E c \in Calls : KillWaitDone(c)
    \/ \E c \in Calls : GraceExpired(c)
    \/ \E c \in Calls : Salvage(c)
    \/ \E c \in Calls : OuterWaitDone(c)
    \/ \E c \in Calls : WaitRaises(c)
    \/ Tick

Spec == Init /\ [][Next]_vars

(***************************************************************************)
(* Two concurrent calls.  Each is a task of the one event loop: a step of  *)
(* a call runs from one await to the next, and the steps of the two calls  *)
(* interleave in any order.                                                *)
(***************************************************************************)
InitTwo == InitWith({ "c1", "c2" })

\* a tool of the plugin p and a name without a delimiter
TwoNames == { Str_p \o DUNDER \o Str_c, Str_pc }

\* a plugin that prints a word
TwoDocs == { << Word >> }

\* the steps of execute_plugin_tool for call c after the spawn
Engine(c) ==
    \/ \E s \in Streams : ReadChunk(c, s)
    \/ Classify(c)
    \/ Timeout(c)
    \/ KillWaitDone(c)
    \/ GraceExpired(c)
    \/ Salvage(c)
    \/ OuterWaitDone(c)

\* the steps of the plugin of call c and of the kernel on its behalf, for a
\* plugin that leaves no descendant behind and can be killed
PromptPlugin(c) ==
    \/ \E s \in Streams : PluginWrite(c, s)
    \/ \E code \in ExitCodes : PluginExit(c, code, { })
    \/ Die(c, { })
    \/ Reap(c)

NextTwo ==
    \/ \E c \in Calls : \E n \in TwoNames : CallTool(c, n, << >>)
    \/ \E c \in Calls : \E out \in TwoDocs : SpawnOk(c, out, << >>)
    \/ \E c \in Calls : SpawnRaises(c)
    \/ \E c \in Calls : PromptPlugin(c)
    \/ \E c \in Calls : Engine(c)
    \/ \E c \in Calls, s \in Streams : ReadRaises(c, s)
    \/ \E c \in Calls : WaitRaises(c)
    \/ Tick

SpecTwo == InitTwo /\ [][NextTwo]_vars

\* the event loop runs a call whose awaited event has arrived, and the
\* plugin of the second call goes on and exits; nothing is asked of the
\* plugin of the first call, nor of the clock
FairSpecTwo ==
    /\ SpecTwo
    /\ WF_vars(\E out \in TwoDocs : SpawnOk("c2", out, << >>))
    /\ WF_vars(Engine("c2"))
    /\ WF_vars(PromptPlugin("c2"))

(***************************************************************************)
(* Tool names: the server has registered the plugin n, alone or next to    *)
(* the plugin a, each with the command cmd found in its help text; a       *)
(* client invokes an advertised tool, by its name or in the legacy form.   *)
(***************************************************************************)
\* the elements of a finite set in some order
SeqOf(S) ==
    CHOOSE q \in [ 1..Cardinality(S) -> S ] :
        \A i, j \in 1..Cardinality(S) : q[i] = q[j] => i = j

\* smcp.py 522-568 for plugins whose --describe is not supported and whose
\* help text names the command
HelpTierLog(order, command) ==
    [ i \in 1..(2 * Len(order)) |->
        IF i % 2 = 1
        THEN Invoked(order[(i + 1) \div 2], "--describe", Exited(2, << >>), TRUE, << >>)
        ELSE Invoked(order[i \div 2], "--help", Exited(0, HelpText(<< command >>)),
                     FALSE, << command >>) ]

InitNames ==
    \E n \in Names, cmd \in Names, both \in BOOLEAN :
        LET S == IF both THEN { n, << "a" >> } ELSE { n }
            order == SeqOf(S)
        IN  /\ plugin_root = Some([ i \in 1..Len(order) |-> DirEntry(order[i], TRUE, TRUE) ])
            /\ plugin_registry = [ m \in S |-> PathOf(m) ]
            /\ all_tools = [ i \in 1..Len(order) |->
                                HelpTools(order[i], parse_commands_from_help(HelpText(<< cmd >>)))[1] ]
            /\ metrics = [ NoMetrics EXCEPT !.plugins_discovered = Len(order),
                                            !.tools_registered = Len(order) ]
            /\ reg = Registered(HelpTierLog(order, cmd),
                                [ i \in 1..Len(order) |->
                                    HelpTools(order[i],
                                              parse_commands_from_help(HelpText(<< cmd >>)))[1] ])
            /\ launch = Started
            /\ active = { "c1" }
            /\ Quiet

\* the j-th command that the i-th invocation of the log made a tool
IsFound(i, j) == i \in 1..Len(reg.log) /\ j \in 1..Len(reg.log[i].found)

\* a client invokes the tool by the name list_tools gave it
InvokeAdvertised(c, i, j) ==
    /\ IsFound(i, j)
    /\ \E k \in 1..Len(all_tools) :
           /\ all_tools[k].name = ToolName(reg.log[i].plugin, reg.log[i].found[j])
           /\ CallTool(c, all_tools[k].name, << >>)

\* a client invokes the tool in the legacy form plugin.command
InvokeLegacy(c, i, j) ==
    /\ IsFound(i, j)
    /\ CallTool(c, reg.log[i].plugin \o DOT \o reg.log[i].found[j], << >>)

NextNames ==
    \/ \E c \in Calls : \E i \in 1..Len(reg.log) :
           \E j \in 1..Len(reg.log[i].found) : InvokeAdvertised(c, i, j)
    \/ \E c \in Calls : \E i \in 1..Len(reg.log) :
           \E j \in 1..Len(reg.log[i].found) : InvokeLegacy(c, i, j)
    \/ \E c \in Calls : SpawnRaises(c)

SpecNames == InitNames /\ [][NextNames]_vars

(***************************************************************************)
(* Startup: register_plugin_tools, smcp.py 505-594.  It runs before the    *)
(* server takes requests, one plugin after the other, and blocks in        *)
(* subprocess.run; a step is what it does from one subprocess.run to the   *)
(* next.                                                                   *)
(***************************************************************************)
Str_x == << "x" >>

\* what the plugins directory may look like
PluginDirs ==
    { None,
      Some(<< >>),
      Some(<< DirEntry(Str_p, TRUE, TRUE) >>),
      Some(<< DirEntry(Str_p, TRUE, TRUE), DirEntry(Str_q, TRUE, TRUE) >>),
      Some(<< DirEntry(Str_q, TRUE, TRUE), DirEntry(Str_x, TRUE, FALSE),
              DirEntry(Str_p, TRUE, TRUE) >>),
      Some(<< DirEntry(Str_x, FALSE, FALSE), DirEntry(Str_p, TRUE, TRUE) >>) }

\* what a plugin may print on --describe
DescribeTexts ==
    { << d >> : d \in DOMAIN DescribeDocs }
        \cup { << >>, << Word >>, << BadByte >>,
               << "\n", "{\"commands\": [x]}", "\n" >>,
               << "{\"commands\": [x]}", Word >> }

\* what a plugin may print on --help
HelpTexts ==
    { << >>,
      << "usage:", " ", "cli", "\n" >>,
      << BadByte >>,
      HelpText(<< << "foo" >>, << "bar" >> >>),
      HelpText(<< << "connect" >>, << "foo" >> >>),
      AvailableCommands \o << "\n", " ", " ", "disconnect", "\n", " ", " ", "options:", " ", "x",
                              "\n", " ", "foo", "\n", " ", " ", " ", "bar" >> }

\* the ways the --describe call may end: with any of the texts and exit
\* status 0, with no output or a whole document and exit status 1, not in
\* time, or with an exception of subprocess.run
DescribeRuns ==
    { TimeoutExpired, RunRaises }
        \cup { Exited(0, out) : out \in DescribeTexts }
        \cup { Exited(1, out) : out \in { << >>, << "{\"commands\": [x]}" >> } }

\* the ways the --help call may end
HelpRuns ==
    { TimeoutExpired, RunRaises }
        \cup { Exited(0, out) : out \in HelpTexts }
        \cup { Exited(1, HelpText(<< << "foo" >>, << "bar" >> >>)) }

InitStartup ==
    /\ metrics = NoMetrics
    /\ plugin_root \in PluginDirs
    /\ plugin_registry = << >>
    /\ all_tools = << >>
    /\ reg = [ pc |-> "init", pending |-> << >>, log |-> << >>, handlers |-> FALSE,
             list_tools |-> << >> ]
    /\ launch = Started
    /\ active = { "c1" }
    /\ Quiet

\* the names of the commands the tools were made of
NamesOf(plugin_name, tools) ==
    [ i \in 1..Len(tools) |-> Drop(tools[i].name, Len(plugin_name) + Len(DUNDER)) ]

\* the loop of 522 goes on to the next plugin, or ends: 570-594 register
\* the handlers
NextPlugin(entries, tools) ==
    LET rest == Tail(reg.pending)
    IN  [ pc |-> IF rest = << >> THEN "done" ELSE "describe",
          pending |-> rest,
          log |-> reg.log \o entries,
          handlers |-> rest = << >> \/ reg.handlers,
          list_tools |-> IF rest = << >> THEN tools ELSE reg.list_tools ]

\* 513-526: discover_plugins, the new list all_tools, up to the first
\* --describe.  Without the directory discover_plugins returns at 109, before
\* it sets the counter.
RegisterStart ==
    /\ reg.pc = "init"
    /\ LET found == discover_plugins(plugin_root)
       IN  /\ plugin_registry' = found.registry
           /\ metrics' = IF plugin_root = None THEN metrics
                         ELSE [ metrics EXCEPT !.plugins_discovered = Len(found.order) ]
           /\ all_tools' = << >>
           /\ reg' = [ pc |-> IF found.order = << >> THEN "done" ELSE "describe",
                       pending |-> found.order,
                       log |-> << >>,
                       handlers |-> found.order = << >> \/ reg.handlers,
                       list_tools |-> IF found.order = << >> THEN << >> ELSE reg.list_tools ]
    /\ UNCHANGED << launch, plugin_root, active, now, pc, tool, call_arguments, cmd_args,
                    spawn_calls, process, plugin, pipe, reader, closure, locals, deadline,
                    result >>

\* 528-550: get_plugin_describe has returned plugin_spec; with a spec, the
\* tools of its commands are made, and an exception of the loop leaves
\* register_plugin_tools
DescribeReturns(run, plugin_spec) ==
    /\ reg.pc = "describe"
    /\ LET plugin_name == Head(reg.pending)
           commands == IF plugin_spec = None THEN << >> ELSE plugin_spec[1].commands
           loop == DescribeLoop(plugin_name, commands, << >>)
       IN  IF FallsBack(plugin_spec)
           THEN /\ reg' = [ reg EXCEPT !.pc = "help",
                                       !.log = Append(@, Invoked(plugin_name, "--describe", run,
                                                                 plugin_spec = None, << >>)) ]
                /\ UNCHANGED << all_tools, metrics >>
           ELSE LET entry == [ Invoked(plugin_name, "--describe", run, plugin_spec = None,
                                       NamesOf(plugin_name, loop.tools))
                                 EXCEPT !.commands = commands ]
                IN  /\ all_tools' = all_tools \o loop.tools
                    /\ metrics' = [ metrics EXCEPT !.tools_registered = @ + Len(loop.tools) ]
                    /\ reg' = IF loop.raised
                              THEN [ reg EXCEPT !.pc = "raised", !.log = Append(@, entry) ]
                              ELSE NextPlugin(<< entry >>, all_tools \o loop.tools)
    /\ UNCHANGED << launch, plugin_root, plugin_registry, active, now, pc, tool, call_arguments,
                    cmd_args,
                    spawn_calls, process, plugin, pipe, reader, closure, locals, deadline,
                    result >>

\* 526-550: the --describe call ends and get_plugin_describe returns
Describe(run) == DescribeReturns(run, get_plugin_describe(run))

\* a help tier whose subprocess.run is not in a try: its exceptions leave
\* register_plugin_tools
HelpUncaught(run) ==
    /\ reg.pc = "help"
    /\ LET plugin_name == Head(reg.pending)
           help_text == get_plugin_help(run)
           commands == parse_commands_from_help(help_text)
           entry == Invoked(plugin_name, "--help", run, FALSE, commands)
       IN  IF run.kind # "exit"
           THEN /\ reg' = [ reg EXCEPT !.pc = "raised", !.log = Append(@, entry) ]
                /\ UNCHANGED << all_tools, metrics >>
           ELSE /\ all_tools' = all_tools \o HelpTools(plugin_name, commands)
                /\ metrics' = [ metrics EXCEPT !.tools_registered = @ + Len(commands) ]
                /\ reg' = NextPlugin(<< entry >>, all_tools \o HelpTools(plugin_name, commands))
    /\ UNCHANGED << launch, plugin_root, plugin_registry, active, now, pc, tool, call_arguments,
                    cmd_args,
                    spawn_calls, process, plugin, pipe, reader, closure, locals, deadline,
                    result >>

\* 555-568: get_plugin_help returns and the commands of the text are made
\* tools
Help(run) ==
    /\ reg.pc = "help"
    /\ LET plugin_name == Head(reg.pending)
           help_text == get_plugin_help(run)
           commands == parse_commands_from_help(help_text)
       IN  /\ all_tools' = all_tools \o HelpTools(plugin_name, commands)
           /\ metrics' = [ metrics EXCEPT !.tools_registered = @ + Len(commands) ]
           /\ reg' = NextPlugin(<< Invoked(plugin_name, "--help", run, FALSE, commands) >>,
                                all_tools \o HelpTools(plugin_name, commands))
    /\ UNCHANGED << launch, plugin_root, plugin_registry, active, now, pc, tool, call_arguments,
                    cmd_args,
                    spawn_calls, process, plugin, pipe, reader, closure, locals, deadline,
                    result >>

NextStartup ==
    \/ RegisterStart
    \/ \E run \in DescribeRuns : Describe(run)
    \/ \E run \in HelpRuns : Help(run)

SpecStartup == InitStartup /\ [][NextStartup]_vars

\* register_plugin_tools is one synchronous function: it goes on from one
\* subprocess.run to the next, and every subprocess.run ends, by the exit of
\* the plugin, by its timeout of 10 seconds or by an exception
FairSpecStartup == SpecStartup /\ WF_vars(NextStartup)

(***************************************************************************)
(* Re-discovery: register_plugin_tools is called again in the running      *)
(* process, the plugins directory as it is by then.  Until the new call    *)
(* registers its handlers at 570-594 the handlers of the call before stay  *)
(* registered.  The calls go on while tools_registered is below            *)
(* MaxRegistered.                                                          *)
(***************************************************************************)
\* smcp.py 571-576: what the registered list_tools handler returns
list_tools_handler == reg.list_tools

AgainDirs ==
    { None,
      Some(<< >>),
      Some(<< DirEntry(Str_p, TRUE, TRUE) >>),
      Some(<< DirEntry(Str_p, TRUE, TRUE), DirEntry(Str_q, TRUE, TRUE) >>) }

\* --describe is not supported, prints a command, or prints a command and
\* an entry that is no object
AgainDescribeRuns ==
    { Exited(1, << >>),
      Exited(0, << "{\"commands\": [x]}" >>),
      Exited(0, << "{\"commands\": [x, \"list\"]}" >>) }

AgainHelpRuns == { TimeoutExpired, Exited(0, HelpText(<< << "foo" >>, << "bar" >> >>)) }

InitAgain ==
    /\ metrics = NoMetrics
    /\ plugin_root \in AgainDirs
    /\ plugin_registry = << >>
    /\ all_tools = << >>
    /\ reg = [ pc |-> "init", pending |-> << >>, log |-> << >>, handlers |-> FALSE,
               list_tools |-> << >> ]
    /\ launch = Started
    /\ active = { "c1" }
    /\ Quiet

\* register_plugin_tools has returned or raised; it is called again, the
\* plugins directory being root
RegisterAgain(root) ==
    /\ reg.pc \in { "done", "raised" }
    /\ metrics.tools_registered < MaxRegistered
    /\ plugin_root' = root
    /\ reg' = [ reg EXCEPT !.pc = "init", !.pending = << >>, !.log = << >> ]
    /\ UNCHANGED << launch, metrics, plugin_registry, all_tools, active, now, pc, tool,
                    call_arguments, cmd_args, spawn_calls, process, plugin, pipe, reader,
                    closure, locals, deadline, result >>

NextAgain ==
    \/ RegisterStart
    \/ \E run \in AgainDescribeRuns : Describe(run)
    \/ \E run \in AgainHelpRuns : Help(run)
    \/ \E root \in AgainDirs : RegisterAgain(root)

SpecAgain == InitAgain /\ [][NextAgain]_vars

(***************************************************************************)
(* The start of the server: one of the entry points is run with a command  *)
(* line and an environment and chooses the host.                           *)
(***************************************************************************)
InitMain ==
    /\ launch \in { Launch(e, a, h, m, None) :
                       e \in EntryPoints, a \in BOOLEAN,
                       h \in { None } \cup { Some(x) : x \in Hosts },
                       m \in { None } \cup { Some(x) : x \in Hosts } }
    /\ metrics = NoMetrics
    /\ plugin_root = None
    /\ plugin_registry = << >>
    /\ all_tools = << >>
    /\ reg = [ pc |-> "init", pending |-> << >>, log |-> << >>, handlers |-> FALSE,
             list_tools |-> << >> ]
    /\ active = { "c1" }
    /\ Quiet

\* the entry point up to create_server(host, port)
Main ==
    /\ launch.host = None
    /\ launch' = [ launch EXCEPT !.host =
                       Some(IF launch.entry_point = "smcp/mcp_server.py"
                            THEN host_of_main(launch.allow_external, launch.host_option)
                            ELSE host_of_async_main(launch.allow_external, launch.host_option,
                                                    launch.MCP_HOST)) ]
    /\ UNCHANGED << metrics, plugin_root, plugin_registry, all_tools, reg, active, now, pc, tool,
                    call_arguments, cmd_args, spawn_calls, process, plugin, pipe, reader,
                    closure, locals, deadline, result >>

NextMain == Main

SpecMain == InitMain /\ [][NextMain]_vars

(***************************************************************************)
(* Discovery alone: discover_plugins over a plugins directory of up to     *)
(* MaxEntries entries, each a file, a directory without cli.py or a        *)
(* directory with it.  The names of a directory's entries are distinct.    *)
(***************************************************************************)
DirNames == { Str_p, Str_q, Str_x, Str_pc }

DirEntries ==
    { DirEntry(n, k[1], k[2]) :
        n \in DirNames, k \in { << FALSE, FALSE >>, << TRUE, FALSE >>, << TRUE, TRUE >> } }

\* the listings of up to max entries
Listings(max) ==
    UNION { { l \in [ 1..n -> DirEntries ] :
                \A i, j \in 1..n : l[i].name = l[j].name => i = j } : n \in 0..max }

InitDiscover ==
    /\ metrics = NoMetrics
    /\ plugin_root \in { None } \cup { Some(l) : l \in Listings(MaxEntries) }
    /\ plugin_registry = << >>
    /\ all_tools = << >>
    /\ reg = [ pc |-> "init", pending |-> << >>, log |-> << >>, handlers |-> FALSE,
             list_tools |-> << >> ]
    /\ launch = Started
    /\ active = { "c1" }
    /\ Quiet

NextDiscover == RegisterStart

SpecDiscover == InitDiscover /\ [][NextDiscover]_vars

(***************************************************************************)
(* The help tier alone: the --describe of the plugin p gave null and its   *)
(* --help prints a text of up to MaxLines lines.                           *)
(***************************************************************************)
\* the lines a help text is made of: the header, bare and indented, empty
\* and blank lines, the Examples header, bare and indented, command lines
\* indented by two spaces, by one and by none, and indented lines that
\* begin with the other reserved tokens
HelpLines ==
    { AvailableCommands,
      << " ", " " >> \o AvailableCommands,
      << >>,
      << " ", " " >>,
      << "Examples:" >>,
      << " ", " ", "Examples:", " ", "x" >>,
      << " ", " ", "foo", " ", " ", "does" >>,
      << " ", " ", "bar" >>,
      << " ", "baz" >>,
      << "qux" >>,
      << " ", " ", "usage:", " ", "x" >>,
      << " ", " ", "options:" >>,
      << " ", " ", "Available", " ", "x" >> }

\* Python: '\n'.join(lines)
RECURSIVE JoinLines(_)
JoinLines(lines) ==
    IF lines = << >> THEN << >>
    ELSE IF Len(lines) = 1 THEN lines[1]
    ELSE lines[1] \o << "\n" >> \o JoinLines(Tail(lines))

\* the texts of up to max lines
HelpOutputs(max) ==
    UNION { { JoinLines(l) : l \in [ 1..n -> HelpLines ] } : n \in 1..max }

InitHelp ==
    /\ metrics = [ NoMetrics EXCEPT !.plugins_discovered = 1 ]
    /\ plugin_root = Some(<< DirEntry(Str_p, TRUE, TRUE) >>)
    /\ plugin_registry = RegistryAfterDiscovery
    /\ all_tools = << >>
    /\ reg = [ pc |-> "help", pending |-> << Str_p >>,
               log |-> << Invoked(Str_p, "--describe", Exited(2, << >>), TRUE, << >>) >>,
               handlers |-> FALSE,
             list_tools |-> << >> ]
    /\ launch = Started
    /\ active = { "c1" }
    /\ Quiet

NextHelp ==
    /\ reg.pc = "help"
    /\ \E out \in HelpOutputs(MaxLines) \cup HelpTexts : Help(Exited(0, out))

SpecHelp == InitHelp /\ [][NextHelp]_vars

(***************************************************************************)
(* Tool synthesis alone: the --describe of the plugin p exits 0 and prints *)
(* a well-formed document with the one command y, which has a description  *)
(* or none and a list of up to MaxParams parameters or none.               *)
(***************************************************************************)
ParamNames == { << "host" >>, << "tags" >> }

\* the six types of the schema, one of them in another case, and a word
\* that is no type
ParamTypes ==
    { "string", "number", "integer", "boolean", "array", "object", "Array", "text" }

\* {"name": .., "required": ..} with a "type" or without
SchemaParams ==
    { [ Param(n, t) EXCEPT !.required = r ] : n \in ParamNames, t \in ParamTypes, r \in BOOLEAN }
        \cup { [ Param(n, "string") EXCEPT !.type = [ kind |-> "absent", v |-> "" ],
                                            !.required = r,
                                            !.description = << "the host" >>,
                                            !.default = Some("localhost") ] :
                   n \in ParamNames, r \in BOOLEAN }

ParamLists(max) == UNION { [ 1..n -> SchemaParams ] : n \in 0..max }

\* no "description", "description": "" and "description": "does y"
Descriptions ==
    { [ kind |-> "absent", v |-> << >> ], [ kind |-> "string", v |-> << >> ],
      [ kind |-> "string", v |-> << "does y" >> ] }

\* the command y with up to max parameters
SchemaCommands(max) ==
    { [ Cmd(<< "y" >>) EXCEPT !.description = d, !.parameters = ps ] :
        d \in Descriptions,
        ps \in { [ kind |-> "absent", v |-> << >> ] }
                 \cup { [ kind |-> "list", v |-> l ] : l \in ParamLists(max) } }

InitSchema ==
    /\ metrics = [ NoMetrics EXCEPT !.plugins_discovered = 1 ]
    /\ plugin_root = Some(<< DirEntry(Str_p, TRUE, TRUE) >>)
    /\ plugin_registry = RegistryAfterDiscovery
    /\ all_tools = << >>
    /\ reg = [ pc |-> "describe", pending |-> << Str_p >>, log |-> << >>, handlers |-> FALSE,
             list_tools |-> << >> ]
    /\ launch = Started
    /\ active = { "c1" }
    /\ Quiet

\* the plugin prints a document with the command; 187-195 return it
DescribeCommand(command_spec) ==
    DescribeReturns(Exited(0, << "{\"commands\": [y]}" >>), Some(WithCommands(<< command_spec >>)))

NextSchema ==
    /\ reg.pc = "describe"
    /\ \E command_spec \in SchemaCommands(MaxParams) : DescribeCommand(command_spec)

SpecSchema == InitSchema /\ [][NextSchema]_vars

(***************************************************************************)
(* Marshaling: a client invokes p__c with an argument mapping of up to     *)
(* MaxArgs keys.                                                           *)
(***************************************************************************)
ArgKeys == { << "u", "_", "s" >>, << "_", "a", "_" >>, << "v" >> }

ArgValues ==
    { Bool(TRUE), Bool(FALSE), Text(<< "x" >>), Text(<< >>), Number(0), Number(1) }

\* mappings: the keys of a mapping are distinct
ArgMappings ==
    UNION { { m \in [ 1..n -> ArgKeys \X ArgValues ] :
                \A i, j \in 1..n : m[i][1] = m[j][1] => i = j } : n \in 0..MaxArgs }

NextMarshal ==
    \/ \E c \in Calls : \E a \in ArgMappings : CallTool(c, Str_p \o DUNDER \o Str_c, a)
    \/ \E c \in Calls : SpawnRaises(c)

SpecMarshal == Init /\ [][NextMarshal]_vars

(***************************************************************************)
(* Properties.                                                             *)
(***************************************************************************)
Done(c) == pc[c] = "done"

\* the text holds the phrase as one of its pieces
HasPhrase(text, phrase) == \E i \in 1..Len(text) : text[i] = phrase

\* the call reached the classification of 373-392: wait_for returned at 335
Classified(c) == Done(c) /\ locals[c]["stdout"] # Unbound

\* what the plugin has printed on stream s so far
Printed(c, s) == Take(Doc(c, s), plugin[c].written[s])

\* C1: whatever fails in execute_plugin_tool (spawn, a stream read,
\* process.wait, decoding, the deadline), a call that ends has returned a
\* text from execute_plugin_tool: call_tool_handler never sees an exception.
C1_NoExceptionEscapes ==
    \A c \in Calls :
        Done(c) => result[c].kind \in { "invalid_format", "not_found", "success",
                                        "exit_error", "timeout", "timeout_partial",
                                        "exception" }

\* a failure was injected and came back as the text of line 395
C1_Witness ==
    \E c \in Calls :
        /\ Done(c)
        /\ result[c].kind = "exception"
        /\ HasPhrase(result[c].text, "Error executing tool")

\* C2: a call whose deadline expired returns within the deadline plus the
\* 5-second grace period, also when the killed process is not reaped in time:
\* no call is still running after that.
C2_ReturnsWithinGrace ==
    \A c \in Calls :
        pc[c] \in { "reading", "kill_wait", "salvage", "outer_wait" }
            => now <= deadline[c] + GraceSeconds

\* C3: while read_output runs, a plugin blocked in a write to a full pipe
\* has the reader of that pipe scheduled, and a call that reaches the
\* classification has read everything the plugin printed on both streams,
\* the deadline not yet passed.
C3_ConcurrentDrain ==
    \A c \in Calls :
        /\ pc[c] = "reading" => \A s \in Streams : Blocked(c, s) => CanRead(c, s)
        /\ Classified(c) =>
               /\ \A s \in Streams : locals[c][s] = Some(Doc(c, s))
               /\ now <= deadline[c]

\* a plugin that floods both pipes was drained and classified
C3_Witness ==
    \E c \in Calls :
        /\ Classified(c)
        /\ \A s \in Streams : Len(Doc(c, s)) > PipeCap /\ locals[c][s] = Some(Doc(c, s))

\* C4 as stated: exit status 0 gives the trimmed stdout as the result, one
\* more success and no more errors.
C4_ZeroExitIsSuccess ==
    \A c \in Calls :
        (Classified(c) /\ process[c].returncode = Some(0)) =>
            /\ result[c] = [ kind |-> "success", text |-> strip(Doc(c, "stdout")) ]
            /\ metrics.tool_calls_success = 1
            /\ metrics.tool_calls_error = 0

\* C4 amended: exit status 0 with a stdout that decodes gives the trimmed
\* stdout, one more success and no more errors; with a stdout that does not
\* decode it gives the text of line 395, one more error and no success.
C4_ZeroExitDecodable ==
    \A c \in Calls :
        (Classified(c) /\ process[c].returncode = Some(0)) =>
            IF Decodable(Doc(c, "stdout"))
            THEN /\ result[c] = [ kind |-> "success", text |-> strip(Doc(c, "stdout")) ]
                 /\ metrics.tool_calls_success = 1
                 /\ metrics.tool_calls_error = 0
            ELSE /\ HasPhrase(result[c].text, "Error executing tool")
                 /\ metrics.tool_calls_success = 0
                 /\ metrics.tool_calls_error = 1

\* a padded output came back trimmed
C4_Witness ==
    \E c \in Calls :
        /\ Classified(c)
        /\ process[c].returncode = Some(0)
        /\ Doc(c, "stdout") = << " ", Word, "\n" >>
        /\ result[c].text = << Word >>
        /\ metrics.tool_calls_success = 1

\* the error text the spec gives for a non-zero exit with this stdout
ExpectedErrorText(stdout, code) ==
    LET text == strip(stdout)
    IN  IF text = << ObjWithError >> THEN << "Error: ", "bad config" >>
        ELSE IF text # << >> THEN << "Error: " >> \o text
        ELSE IF stdout # << >>
             THEN << "Error: ", "Plugin exited with code ", ToString(code) >>
             ELSE << "Error: ", "Plugin exited with code ", ToString(code), " (no output)" >>

NonZeroExit(c) == Classified(c) /\ process[c].returncode # Some(0)

\* C5 as stated: a non-zero exit gives the error field of a JSON stdout,
\* else the trimmed stdout, else a message naming the exit code, and in each
\* case one more error and no more successes.
C5_NonZeroExitText ==
    \A c \in Calls :
        NonZeroExit(c) =>
            /\ result[c].text = ExpectedErrorText(Doc(c, "stdout"), process[c].returncode[1])
            /\ metrics.tool_calls_error = 1
            /\ metrics.tool_calls_success = 0

\* C5 amended: the same for a stdout that decodes; a stdout that does not
\* decode gives the text of line 395; one more error in every case.
C5_NonZeroExitDecodable ==
    \A c \in Calls :
        NonZeroExit(c) =>
            /\ IF Decodable(Doc(c, "stdout"))
               THEN result[c].text =
                        ExpectedErrorText(Doc(c, "stdout"), process[c].returncode[1])
               ELSE HasPhrase(result[c].text, "Error executing tool")
            /\ metrics.tool_calls_error = 1
            /\ metrics.tool_calls_success = 0

\* exit 1 with a padded JSON error document reports the error field
C5_Witness ==
    \E c \in Calls :
        /\ NonZeroExit(c)
        /\ Doc(c, "stdout") = << "\n", ObjWithError, " " >>
        /\ result[c].text = << "Error: ", "bad config" >>
        /\ metrics.tool_calls_error = 1

\* C6: a call rejected before any spawn (malformed name, unknown plugin)
\* is counted as an error.
C6_RejectedIsCounted ==
    \A c \in Calls :
        (Done(c) /\ result[c].kind \in { "invalid_format", "not_found" })
            => metrics.tool_calls_error = 1

\* C7: a call that timed out or in which something raised has counted one
\* error, not none and not two, and no success; no error is counted before
\* the call returns.
C7_OneErrorPerFailure ==
    \A c \in Calls :
        /\ (c \in active /\ ~Done(c)) => metrics.tool_calls_error = 0
        /\ (Done(c) /\ result[c].kind \notin { "invalid_format", "not_found",
                                               "success", "exit_error" })
               => /\ metrics.tool_calls_error = 1
                  /\ metrics.tool_calls_success = 0

\* a call went through both timeout handlers, the grace period expired
C7_Witness ==
    \E c \in Calls :
        /\ Done(c)
        /\ result[c].kind = "timeout"
        /\ Len(process[c].signals) = 2
        /\ metrics.tool_calls_error = 1

\* C8: a tool name with neither delimiter gives "Invalid tool name format"
\* and no spawn.
C8_NoDelimiterRejected ==
    \A c \in Calls :
        (pc[c] # "idle" /\ ~Contains(tool[c], DUNDER) /\ ~Contains(tool[c], DOT)) =>
            /\ Done(c)
            /\ HasPhrase(result[c].text, "Invalid tool name format")
            /\ spawn_calls[c] = 0

\* a name with a single underscore was rejected
C8_Witness ==
    \E c \in Calls :
        /\ Done(c)
        /\ tool[c] = << "p", "_", "c" >>
        /\ HasPhrase(result[c].text, "Invalid tool name format")

\* the part of a well-formed name before its delimiter
PluginPart(tool_name) ==
    IF Contains(tool_name, DUNDER) THEN Split1(tool_name, DUNDER)[1]
    ELSE Split1(tool_name, DOT)[1]

\* C9: a well-formed tool name whose plugin part is no key of the registry
\* gives "not found" and no spawn.
C9_UnknownPluginRejected ==
    \A c \in Calls :
        (/\ pc[c] # "idle"
         /\ Contains(tool[c], DUNDER) \/ Contains(tool[c], DOT)
         /\ PluginPart(tool[c]) \notin DOMAIN plugin_registry) =>
            /\ Done(c)
            /\ HasPhrase(result[c].text, "not found")
            /\ spawn_calls[c] = 0

\* q__c was rejected
C9_Witness ==
    \E c \in Calls :
        /\ Done(c)
        /\ tool[c] = Str_q \o DUNDER \o Str_c
        /\ HasPhrase(result[c].text, "not found")

\* C10: a timeout error of a call whose plugin had printed on stdout
\* carries that partial output.
C10_PartialOutputReported ==
    \A c \in Calls :
        (/\ Done(c)
         /\ result[c].kind \in { "timeout", "timeout_partial" }
         /\ Printed(c, "stdout") # << >>) =>
            /\ HasPhrase(result[c].text, ". Partial output: ")
            /\ \E i \in 1..Len(result[c].text) : result[c].text[i] = Printed(c, "stdout")[1]

\* the call was resolved to the plugin and the command and spawned with
\* this command line
SpawnedWith(c, plugin_name, command, flags) ==
    /\ spawn_calls[c] = 1
    /\ plugin_name \in DOMAIN plugin_registry
    /\ cmd_args[c] = << sys_executable, plugin_registry[plugin_name], command >> \o flags

\* C11: invoking the name that create_tool_from_plugin(p, c) makes for a
\* registered plugin p and a command c spawns p's cli.py with c as the
\* first argument, whatever characters p and c are made of.
C11_RoundTrip ==
    \A c \in Calls : \A p \in DOMAIN plugin_registry, cmd \in Names :
        (pc[c] # "idle" /\ tool[c] = ToolName(p, cmd)) => SpawnedWith(c, p, cmd, << >>)

\* C12 as stated: for every registered plugin p and command c, invoking
\* p.c is resolved and spawned as invoking p__c is: to p's cli.py with c as
\* the first argument.
C12_LegacyDotSame ==
    \A c \in Calls : \A p \in DOMAIN plugin_registry, cmd \in Names :
        (pc[c] # "idle" /\ tool[c] = p \o DOT \o cmd) => SpawnedWith(c, p, cmd, << >>)

\* the name is split at its first double underscore
SplitAtDunder(c) ==
    LET parts == Split1(tool[c], DUNDER)
    IN  IF parts[1] \in DOMAIN plugin_registry
        THEN SpawnedWith(c, parts[1], parts[2], << >>)
        ELSE spawn_calls[c] = 0 /\ HasPhrase(result[c].text, "not found")

\* C12 amended: a name with a double underscore is split at the first one,
\* also when it has a dot; the dot is the delimiter only of names without a
\* double underscore.  So for a registered plugin p without a dot and a
\* command c, neither with a double underscore, invoking p.c spawns p's
\* cli.py with c as the first argument.
C12_LegacyDotUnlessDunder ==
    \A c \in Calls :
        /\ (pc[c] # "idle" /\ Contains(tool[c], DUNDER)) => SplitAtDunder(c)
        /\ \A p \in DOMAIN plugin_registry, cmd \in Names :
               (/\ pc[c] # "idle"
                /\ tool[c] = p \o DOT \o cmd
                /\ ~Contains(p, DOT)
                /\ ~Contains(tool[c], DUNDER)) =>
                   SpawnedWith(c, p, cmd, << >>)

\* the legacy name a.-. was resolved to plugin a and command -., and the
\* advertised name a__.a was split at the double underscore
C12_Witness ==
    \E c \in Calls :
        \/ /\ tool[c] = << "a", ".", "-", "." >>
           /\ SpawnedWith(c, << "a" >>, << "-", "." >>, << >>)
        \/ /\ tool[c] = << "a", "_", "_", ".", "a" >>
           /\ SpawnedWith(c, << "a" >>, << ".", "a" >>, << >>)

\* the tokens the spec gives for one argument
ExpectedTokens(key, value) ==
    LET flag == << "-", "-" >> \o [ i \in 1..Len(key) |-> IF key[i] = "_" THEN "-" ELSE key[i] ]
    IN  IF value = Bool(TRUE) THEN << flag >>
        ELSE IF value = Bool(FALSE) THEN << >>
        ELSE IF value.t = "int" THEN << flag, << ToString(value.n) >> >>
        ELSE << flag, value.s >>

RECURSIVE ExpectedFlags(_)
ExpectedFlags(a) ==
    IF a = << >> THEN << >>
    ELSE ExpectedTokens(a[1][1], a[1][2]) \o ExpectedFlags(Tail(a))

\* C13: the command line is the interpreter, the plugin path and the
\* command, followed for each argument in mapping order by --key for true,
\* nothing for false, and --key and the stringified value otherwise, the
\* underscores of the key replaced by hyphens.
C13_Marshaling ==
    \A c \in Calls :
        spawn_calls[c] = 1 =>
            cmd_args[c] = << sys_executable, PathOf(ParseToolName(tool[c]).plugin_name),
                             ParseToolName(tool[c]).command >>
                             \o ExpectedFlags(call_arguments[c])

\* use_ssl: true, v: false, _a_: 0 went out as --u-s ---a- 0
C13_Witness ==
    \E c \in Calls :
        /\ call_arguments[c] = << << << "u", "_", "s" >>, Bool(TRUE) >>,
                                  << << "_", "a", "_" >>, Number(0) >> >>
        /\ cmd_args[c] = << sys_executable, PathOf(Str_p), Str_c,
                            << "-", "-", "u", "-", "s" >>,
                            << "-", "-", "-", "a", "-" >>, << "0" >> >>

\* the plugin of call c runs, has printed nothing and has been sent no
\* signal, and the call waits for it, its deadline not reached
Hanging(c) ==
    /\ pc[c] = "reading"
    /\ process[c].state = "running"
    /\ process[c].signals = << >>
    /\ \A s \in Streams : plugin[c].written[s] = 0
    /\ now < deadline[c]

\* C14: a second call, whose plugin goes on and exits, returns whatever
\* the first call does: no step of it waits for a step of the first call
\* or for the clock to reach the first call's deadline, so it returns also
\* when the first call hangs and the clock stands still.
C14_SecondCallReturns == (pc["c2"] # "idle") ~> Done("c2")

\* the second call was made after the first, whose plugin hangs, and has
\* returned its plugin's output before the first call's deadline
C14_Witness ==
    /\ Hanging("c1")
    /\ deadline["c1"] < deadline["c2"]
    /\ Classified("c2")
    /\ result["c2"] = [ kind |-> "success", text |-> << Word >> ]

\* the results of the branches that count an error
ErrorCounting == { "exit_error", "timeout", "timeout_partial", "exception", "handler_error" }

\* C15: however the steps of the concurrent calls interleave, every
\* increment is in the counters: tool_calls_total is the number of calls
\* made, tool_calls_success the number of calls that returned a success and
\* tool_calls_error the number of calls that returned from an
\* error-counting branch; so also once all calls have returned.
C15_NoLostIncrement ==
    /\ metrics.tool_calls_total = Cardinality({ c \in Calls : pc[c] # "idle" })
    /\ metrics.tool_calls_success =
           Cardinality({ c \in Calls : Done(c) /\ result[c].kind = "success" })
    /\ metrics.tool_calls_error =
           Cardinality({ c \in Calls : Done(c) /\ result[c].kind \in ErrorCounting })

\* the second call was spawned while the first was waiting and returned a
\* success, the first timed out: two calls, one success, one error
C15_Witness ==
    /\ Done("c1") /\ Done("c2")
    /\ result["c1"].kind = "timeout"
    /\ result["c2"].kind = "success"
    /\ deadline["c1"] < deadline["c2"]
    /\ deadline["c2"] - timeout_seconds < deadline["c1"]
    /\ metrics.tool_calls_total = 2
    /\ metrics.tool_calls_success = 1
    /\ metrics.tool_calls_error = 1

\* C16: a call spawns at most one subprocess; a call that ended in a
\* failure of the subprocess (non-zero exit, timeout, an exception of the
\* spawn, of a read or of the wait) has spawned exactly one.
C16_AtMostOneSpawn ==
    \A c \in Calls :
        /\ spawn_calls[c] <= 1
        /\ (Done(c) /\ result[c].kind \in ErrorCounting) => spawn_calls[c] = 1

\* the spawn failed and the call returned the failure
C16_Witness ==
    \E c \in Calls :
        /\ Done(c)
        /\ process[c].state = "none"
        /\ result[c].kind = "exception"
        /\ spawn_calls[c] = 1

\* the entries of the log for the plugin and the tier
Invocations(plugin_name, tier) ==
    { i \in 1..Len(reg.log) : reg.log[i].plugin = plugin_name /\ reg.log[i].tier = tier }

\* C17: register_plugin_tools invokes --describe once for each plugin it
\* comes to, before any --help of that plugin, and invokes --help, right
\* after, if and only if the describe tier yielded null: the help text of
\* a plugin whose describe tier gave a spec is never asked for.
C17_HelpOnlyAfterNullDescribe ==
    /\ \A i \in 1..Len(reg.log) :
           /\ reg.log[i].tier = "--help" =>
                  /\ i > 1
                  /\ reg.log[i - 1].tier = "--describe"
                  /\ reg.log[i - 1].plugin = reg.log[i].plugin
                  /\ reg.log[i - 1].null
           /\ reg.log[i].tier = "--describe" =>
                  IF reg.log[i].null
                  THEN IF i = Len(reg.log)
                       THEN reg.pc = "help"
                       ELSE /\ reg.log[i + 1].tier = "--help"
                            /\ reg.log[i + 1].plugin = reg.log[i].plugin
                  ELSE /\ i = Len(reg.log) => reg.pc # "help"
                       /\ Invocations(reg.log[i].plugin, "--help") = { }
    /\ \A n \in DOMAIN plugin_registry :
           /\ Cardinality(Invocations(n, "--describe")) <= 1
           /\ Cardinality(Invocations(n, "--help")) <= 1
           /\ reg.pc = "done" => Cardinality(Invocations(n, "--describe")) = 1

\* startup is over: the describe tier of one plugin gave a spec without
\* commands and no help was asked for, that of the other gave null and its
\* help was asked for
C17_Witness ==
    /\ reg.pc = "done"
    /\ \E i \in 1..Len(reg.log) :
           /\ reg.log[i].tier = "--describe"
           /\ reg.log[i].run = Exited(0, << "{\"commands\": []}" >>)
           /\ Invocations(reg.log[i].plugin, "--help") = { }
    /\ \E i \in 1..Len(reg.log) :
           /\ reg.log[i].tier = "--describe"
           /\ reg.log[i].null
           /\ Invocations(reg.log[i].plugin, "--help") # { }

\* the describe call exited 0 and printed one JSON document, an object
\* whose "commands" is a list
WellFormedDescribe(run) ==
    /\ run.kind = "exit"
    /\ run.returncode = 0
    /\ \E d \in DOMAIN DescribeDocs :
           /\ strip(run.stdout) = << d >>
           /\ DescribeDocs[d].type = "object"
           /\ DescribeDocs[d].has_commands
           /\ DescribeDocs[d].is_list

\* C18: get_plugin_describe returns the document exactly when the call
\* exited 0 and printed a JSON object whose "commands" is a list; for a
\* non-zero exit, output that is no JSON or no text, a value of another
\* shape, a timeout and an exception it returns null, and in no case does
\* an exception leave it: register_plugin_tools goes on to the help tier.
C18_DescribeSpecOrNull ==
    \A i \in 1..Len(reg.log) :
        reg.log[i].tier = "--describe" =>
            /\ reg.log[i].null <=> ~WellFormedDescribe(reg.log[i].run)
            /\ reg.log[i].null => (reg.pc = "help" \/ i < Len(reg.log))

\* one plugin printed a whole document and exited 1, which gave null; the
\* other printed the document between newlines and exited 0, which gave the
\* spec and the tool of its command x
C18_Witness ==
    /\ \E i \in 1..Len(reg.log) :
           /\ reg.log[i].tier = "--describe"
           /\ reg.log[i].run = Exited(1, << "{\"commands\": [x]}" >>)
           /\ reg.log[i].null
    /\ \E i \in 1..Len(reg.log) :
           /\ reg.log[i].tier = "--describe"
           /\ reg.log[i].run = Exited(0, << "\n", "{\"commands\": [x]}", "\n" >>)
           /\ ~reg.log[i].null
           /\ reg.log[i].found = << Str_x >>

\* C19: whatever a plugin prints on --describe and however --describe
\* and --help end, register_plugin_tools does not raise, and once it has
\* gone through the plugins the handlers are registered.
C19_StartupNeverAborts ==
    /\ reg.pc # "raised"
    /\ reg.pending = << >> /\ reg.pc # "init" => reg.handlers

\* the command names that must not become tools
ToolOfRedundant(tool_name) ==
    \E n \in DOMAIN plugin_registry, r \in Redundant : tool_name = ToolName(n, r)

\* C20: no tool of all_tools is made of a command named connect or
\* disconnect, in whichever tier the command was found.
C20_NoConnectTools ==
    \A k \in 1..Len(all_tools) : ~ToolOfRedundant(all_tools[k].name)

\* the commands of the document a --describe call printed
CommandsOf(run) == json_loads_describe(strip(run.stdout)).commands

\* the entries of a document that carry a name which is not set aside
Takes(command_spec) ==
    /\ command_spec.name # None
    /\ command_spec.name # Some(<< >>)
    /\ command_spec.name[1] \notin Redundant

\* C21: an entry of a describe document without a name, missing or empty,
\* makes no tool and does not count in tools_registered, and the entries
\* of the same document that have a name are made tools all the same: when
\* the loop over a document has run through, the tools made of it are those
\* of its named entries, in order, no tool has an empty command part, and
\* tools_registered is the number of tools made.
C21_NamelessRejected ==
    /\ metrics.tools_registered = Len(all_tools)
    /\ \A k \in 1..Len(all_tools) :
           \A n \in DOMAIN plugin_registry : all_tools[k].name # ToolName(n, << >>)
    /\ \A i \in 1..Len(reg.log) :
           /\ reg.log[i].tier = "--describe"
           /\ ~reg.log[i].null
           /\ ~(reg.pc = "raised" /\ i = Len(reg.log))
           => LET taken == SelectSeq(CommandsOf(reg.log[i].run), Takes)
              IN  reg.log[i].found = [ j \in 1..Len(taken) |-> taken[j].name[1] ]

\* startup is over; a plugin printed a document with an entry without
\* "name", one with the name "", and the command x: x alone was made a tool
C21_Witness ==
    /\ reg.pc = "done"
    /\ \E i \in 1..Len(reg.log) :
           /\ reg.log[i].tier = "--describe"
           /\ reg.log[i].run = Exited(0, << "{\"commands\": [{}, {\"name\": \"\"}, x]}" >>)
           /\ reg.log[i].found = << Str_x >>
           /\ \E k \in 1..Len(all_tools) :
                  all_tools[k].name = ToolName(reg.log[i].plugin, Str_x)
    /\ metrics.tools_registered = Len(all_tools)

\* the entries of the plugins directory that are directories holding cli.py
ValidEntries ==
    IF plugin_root = None THEN { }
    ELSE { i \in 1..Len(plugin_root[1]) :
             plugin_root[1][i].is_dir /\ plugin_root[1][i].has_cli }

\* C22: once discover_plugins has returned, the registry has one
\* descriptor for each immediate subdirectory of the plugin root that holds
\* cli.py, keyed by the name of the subdirectory and carrying the path of
\* its cli.py, and none for any other entry: with N such subdirectories and
\* M others it has N entries and plugins_discovered is N.  Without the root
\* the registry is empty and nothing was raised.
C22_OneDescriptorPerPlugin ==
    reg.pc # "init" =>
        IF plugin_root = None
        THEN DOMAIN plugin_registry = { } /\ reg.pc = "done"
        ELSE /\ DOMAIN plugin_registry = { plugin_root[1][i].name : i \in ValidEntries }
             /\ \A n \in DOMAIN plugin_registry : plugin_registry[n] = PathOf(n)
             /\ Cardinality(DOMAIN plugin_registry) = Cardinality(ValidEntries)
             /\ metrics.plugins_discovered = Cardinality(ValidEntries)

\* discovery has run over a root with two plugins, a directory without
\* cli.py and nothing else: the registry has the two plugins
C22_Witness ==
    /\ reg.pc # "init"
    /\ plugin_root # None
    /\ Len(plugin_root[1]) = 3
    /\ Cardinality(ValidEntries) = 2
    /\ \E i \in 1..3 : plugin_root[1][i].is_dir /\ ~plugin_root[1][i].has_cli
    /\ Cardinality(DOMAIN plugin_registry) = 2
    /\ metrics.plugins_discovered = 2

\* discovery has run without a plugin root
C22_WitnessNoRoot ==
    /\ reg.pc = "done"
    /\ plugin_root = None

\* the line begins with two spaces, as the command lines of a help text do
Indented(line) == StartsWith(line, << " ", " " >>)

\* the first whitespace-delimited token of a line that is not blank
FirstToken(line) == split(line)[1]

\* an indented line that begins with a reserved token
ReservedLine(line) ==
    Indented(line) /\ strip(line) # << >> /\ FirstToken(line) \in ReservedTokens

HeaderLine(line) == StartsWith(strip(line), AvailableCommands)

BlankLine(line) == strip(line) = << >>

ExamplesHeader(line) ==
    ~BlankLine(line) /\ FirstToken(line) \in { << "Examples" >>, << "Examples:" >> }

\* line i lies between a header line and the next blank line or Examples
\* header
InSection(lines, i) ==
    /\ ~HeaderLine(lines[i]) /\ ~BlankLine(lines[i]) /\ ~ExamplesHeader(lines[i])
    /\ \E h \in 1..(i - 1) :
           /\ HeaderLine(lines[h])
           /\ \A j \in (h + 1)..(i - 1) : ~BlankLine(lines[j]) /\ ~ExamplesHeader(lines[j])

\* the first tokens of the indented lines of the sections, in order
SectionCommands(lines) ==
    LET Qualifies(i) == InSection(lines, i) /\ Indented(lines[i])
        picked == SelectSeq([ i \in 1..Len(lines) |-> i ], Qualifies)
    IN  [ k \in 1..Len(picked) |-> FirstToken(lines[picked[k]]) ]

\* the help call exited 0 with text
HelpReturned(e) ==
    e.tier = "--help" /\ e.run.kind = "exit" /\ e.run.returncode = 0 /\ Decodable(e.run.stdout)

\* C23: for a help text none of whose indented lines begins with a
\* reserved token, parse_commands_from_help returns, in order, exactly the
\* first whitespace-delimited token of each indented line (a line that
\* begins with two spaces) between an "Available commands:" header line
\* and the next blank line or Examples header: lines before the header and
\* lines after the end of the section give no command, and a text without
\* the header gives the empty list.
C23_SectionCommands ==
    \A i \in 1..Len(reg.log) :
        LET lines == SplitLines(reg.log[i].run.stdout)
        IN  /\ HelpReturned(reg.log[i])
            /\ \A k \in 1..Len(lines) : ~ReservedLine(lines[k])
            => /\ reg.log[i].found = SectionCommands(lines)
               /\ (\A k \in 1..Len(lines) : ~HeaderLine(lines[k])) => reg.log[i].found = << >>

\* the help text had a usage line, the header, the lines of foo and bar, a
\* blank line and the Examples header with the line of baz under it: foo
\* and bar were found, in this order, and made tools
C23_Witness ==
    \E i \in 1..Len(reg.log) :
        /\ HelpReturned(reg.log[i])
        /\ reg.log[i].run.stdout = HelpText(<< << "foo" >>, << "bar" >> >>)
        /\ reg.log[i].found = << << "foo" >>, << "bar" >> >>
        /\ \E k \in 1..Len(all_tools) :
               all_tools[k].name = ToolName(reg.log[i].plugin, << "foo" >>)

\* the section as C24 has it: an indented line that begins with a reserved
\* token is a line of the section, which goes on after it
InSectionPastReserved(lines, i) ==
    LET Ends(line) == BlankLine(line) \/ (ExamplesHeader(line) /\ ~ReservedLine(line))
    IN  /\ ~HeaderLine(lines[i]) /\ ~Ends(lines[i])
        /\ \E h \in 1..(i - 1) :
               /\ HeaderLine(lines[h])
               /\ \A j \in (h + 1)..(i - 1) : ~Ends(lines[j])

\* C24: inside the commands section an indented line whose first token is
\* usage:, options:, Available or Examples: gives no command, and every
\* other indented line of the section gives its first token, before and
\* after the reserved lines.
C24_ReservedLinesOnlyExcluded ==
    \A i \in 1..Len(reg.log) :
        HelpReturned(reg.log[i]) =>
            LET lines == SplitLines(reg.log[i].run.stdout)
                Qualifies(k) == /\ InSectionPastReserved(lines, k)
                                /\ Indented(lines[k])
                                /\ ~ReservedLine(lines[k])
                picked == SelectSeq([ k \in 1..Len(lines) |-> k ], Qualifies)
            IN  reg.log[i].found = [ k \in 1..Len(picked) |-> FirstToken(lines[picked[k]]) ]

\* the schema type the words of C25 give a parameter: its type when that
\* is one of the six, string otherwise
TypeAsWritten(param) ==
    IF param.type.kind = "string" /\ param.type.v \in json_type_map THEN param.type.v
    ELSE "string"

\* the schema type of a parameter whose type is matched in lower case
TypeInLowerCase(param) ==
    IF param.type.kind = "string" /\ lower(param.type.v) \in json_type_map
    THEN lower(param.type.v)
    ELSE "string"

\* schema is the object schema of the parameters, typed by TypeOf
IsSchemaOf(schema, parameters, TypeOf(_)) ==
    LET names == { parameters[j].name : j \in 1..Len(parameters) }
        keys == [ k \in 1..Len(schema.properties) |-> schema.properties[k][1] ]
    IN  /\ schema.type = "object"
        /\ schema.additionalProperties = FALSE
        /\ { keys[k] : k \in 1..Len(keys) } = names
        /\ \A k, l \in 1..Len(keys) : keys[k] = keys[l] => k = l
        /\ \A k \in 1..Len(keys) :
               LET prop == schema.properties[k][2]
               IN  /\ \E j \in 1..Len(parameters) :
                          parameters[j].name = keys[k] /\ prop.type = TypeOf(parameters[j])
                   /\ prop.items = IF prop.type = "array" THEN Some("string") ELSE None
        /\ { schema.required[k] : k \in 1..Len(schema.required) } =
               { parameters[j].name : j \in { j \in 1..Len(parameters) : parameters[j].required } }

\* the tools made of the commands of the describe documents have the
\* schemas of their parameter lists, typed by TypeOf, and the empty object
\* schema without a parameter list or with an empty one
SchemasAre(TypeOf(_)) ==
    \A i \in 1..Len(reg.log) : \A j \in 1..Len(reg.log[i].commands) :
        LET command_spec == reg.log[i].commands[j]
        IN  /\ reg.pc # "raised"
            /\ Takes(command_spec)
            => \E k \in 1..Len(all_tools) :
                   /\ all_tools[k].name = ToolName(reg.log[i].plugin, command_spec.name[1])
                   /\ IsSchemaOf(all_tools[k].inputSchema, command_spec.parameters.v, TypeOf)
                   /\ command_spec.parameters.v = << >> =>
                          all_tools[k].inputSchema = EmptySchema

\* C25 as stated: the input schema of a command with a parameter list is
\* an object schema with exactly one property per parameter name, typed by
\* the parameter's type when it is one of string, number, integer, boolean,
\* array, object and as string otherwise, array properties with string
\* items; required holds exactly the names of the required parameters and
\* additionalProperties is false; without parameters the schema is the
\* empty object schema.
C25_SchemaByType == SchemasAre(TypeAsWritten)

\* C25, amended: as above, with the type of a parameter matched without
\* regard to case: a property is typed by the lower-cased type of its
\* parameter when that is one of the six, and as string otherwise.
C25_SchemaByLoweredType == SchemasAre(TypeInLowerCase)

\* the command had the parameters host, an integer that is required, and
\* tags, of the type "Array" and optional: the schema has the two
\* properties, tags an array of strings, and requires host
C25_Witness ==
    \E k \in 1..Len(all_tools) :
        /\ Len(reg.log) = 1
        /\ reg.log[1].commands # << >>
        /\ reg.log[1].commands[1].parameters.v =
               << Param(<< "host" >>, "integer"),
                  [ Param(<< "tags" >>, "Array") EXCEPT !.required = FALSE ] >>
        /\ all_tools[k].inputSchema.properties =
               << << << "host" >>, [ type |-> "integer", description |-> None,
                                     default |-> None, items |-> None ] >>,
                  << << "tags" >>, [ type |-> "array", description |-> None,
                                     default |-> None, items |-> Some("string") ] >> >>
        /\ all_tools[k].inputSchema.required = << << "host" >> >>

\* C26: no tool has an empty description: the tool of a command whose
\* spec has no description, or the empty string for one, is described as
\* "Execute <plugin> <command> command".
C26_NeverEmptyDescription ==
    /\ \A k \in 1..Len(all_tools) : all_tools[k].description # << >>
    /\ \A i \in 1..Len(reg.log) : \A j \in 1..Len(reg.log[i].commands) :
           LET command_spec == reg.log[i].commands[j]
           IN  /\ reg.pc # "raised"
               /\ Takes(command_spec)
               /\ command_spec.description.v = << >>
               => \E k \in 1..Len(all_tools) :
                      /\ all_tools[k].name =
                             reg.log[i].plugin \o << "_", "_" >> \o command_spec.name[1]
                      /\ all_tools[k].description =
                             << "Execute " >> \o reg.log[i].plugin \o << " " >>
                                 \o command_spec.name[1] \o << " command" >>

ErrorMarked(text) == text # << >> /\ text[1] \in { "Error: ", "Error executing tool" }

\* C27: a call that failed (malformed name, unknown plugin, non-zero exit,
\* timeout, caught exception) returns a text that begins with Error, and a
\* call that succeeded returns the plain result: the mark tells the two
\* apart.
C27_FailuresMarked ==
    \A c \in Calls :
        Done(c) => (ErrorMarked(result[c].text) <=> result[c].kind # "success")

\* the plugin exited non-zero, printed nothing on stdout and something on
\* stderr, and the call went through the classification
StderrOnlyFailure(c) ==
    /\ NonZeroExit(c)
    /\ Doc(c, "stdout") = << >>
    /\ Doc(c, "stderr") # << >>

C30_LoopbackByDefault ==
    launch.host # None =>
        /\ (~launch.allow_external /\ launch.host_option = None /\ launch.MCP_HOST = None)
               => launch.host = Some("127.0.0.1")
        /\ launch.host = Some("0.0.0.0") =>
               \/ launch.allow_external
               \/ launch.host_option = Some("0.0.0.0")
               \/ launch.MCP_HOST = Some("0.0.0.0")

\* the step ends call c
Ends(c) == pc[c] # "done" /\ pc'[c] = "done"

\* the call reached create_subprocess_exec of line 294
Spawning(c) == spawn_calls[c] > 0

\* C31: a call that started its subprocess ends in one of three ways.  A
\* result classified by the exit status (373-392) is returned by a step taken
\* with both readers at end of stream and the exit observed, and wait_for
\* has returned their data; a timeout text is returned after the deadline
\* expired and the readers were cancelled; anything else is the text of the
\* exception handler of 394-398.
C31_ClassifiedAfterDrains ==
    [][ \A c \in Calls :
            Ends(c) /\ Spawning(c) =>
                \/ /\ result'[c].kind \in { "success", "exit_error" }
                   /\ pc[c] = "reading"
                   /\ AllEof(c)
                   /\ process[c].returncode # None
                   /\ \A s \in Streams : locals'[c][s] = Some(closure[c][s])
                \/ /\ result'[c].kind \in { "timeout", "timeout_partial" }
                   /\ pc[c] \in { "salvage", "outer_wait" }
                   /\ now >= deadline[c]
                   /\ \A s \in Streams : reader[c][s] = "cancelled"
                \/ result'[c].kind = "exception" ]_vars

\* a plugin exited, a descendant held its stderr open for a while, and the
\* call was classified once both streams had ended
C31_Witness ==
    \E c \in Calls :
        /\ Classified(c)
        /\ result[c].kind \in { "success", "exit_error" }
        /\ \A s \in Streams : reader[c][s] = "eof" /\ ~pipe[c][s].open
        /\ Doc(c, "stdout") # << >>
        /\ Doc(c, "stderr") # << >>

\* the call returned one of the timeout texts of 353-357 and 369-371
TimedOut(c) == Done(c) /\ result[c].kind \in { "timeout", "timeout_partial" }

\* C32: a call that returned a timeout error has sent SIGKILL to its
\* subprocess or had seen it exited; every signal the engine ever sent is
\* SIGKILL, and it was sent after the call's deadline expired.
C32_KillOnTimeoutOnly ==
    \A c \in Calls :
        /\ TimedOut(c) => process[c].signals # << >> \/ process[c].returncode # None
        /\ \A i \in 1..Len(process[c].signals) : process[c].signals[i] = "SIGKILL"
        /\ process[c].signals # << >> =>
               /\ now >= deadline[c]
               /\ pc[c] \in { "kill_wait", "salvage", "outer_wait", "done" }
               /\ \A s \in Streams : reader[c][s] = "cancelled"

\* a plugin ran into the deadline, was killed and the call returned the
\* timeout text
C32_Witness ==
    \E c \in Calls :
        /\ TimedOut(c)
        /\ process[c].signals # << >>
        /\ process[c].signals[1] = "SIGKILL"

\* a plugin had exited while a descendant held its pipes, the deadline
\* expired and the call returned the timeout text without a signal
C32_WitnessExited ==
    \E c \in Calls :
        /\ TimedOut(c)
        /\ process[c].signals = << >>
        /\ process[c].returncode # None

\* no call is between its first and its last step
NoneInFlight == \A c \in Calls : pc[c] \in { "idle", "done" }

\* C33: once no call is in flight, every call made was counted as a
\* success or as an error: tool_calls_total = tool_calls_success +
\* tool_calls_error.
C33_TotalIsSuccessPlusError ==
    NoneInFlight =>
        metrics.tool_calls_total = metrics.tool_calls_success + metrics.tool_calls_error

\* the number of calls the step ends
Ending == Cardinality({ c \in Calls : Ends(c) })

\* C34: in every step, whatever the interleaving of the calls, no counter
\* decreases; tool_calls_total counts the calls that have started, so a call
\* is counted there before it can count a success or an error; and
\* tool_calls_success + tool_calls_error grows by at most one for each call
\* the step ends, never otherwise, so it stays at or below the number of
\* calls that have ended and below tool_calls_total.
C34_CountersInStep ==
    [][ /\ metrics'.tool_calls_total >= metrics.tool_calls_total
        /\ metrics'.tool_calls_success >= metrics.tool_calls_success
        /\ metrics'.tool_calls_error >= metrics.tool_calls_error
        /\ metrics'.tool_calls_total = Cardinality({ c \in Calls : pc'[c] # "idle" })
        /\ (metrics'.tool_calls_success + metrics'.tool_calls_error)
               - (metrics.tool_calls_success + metrics.tool_calls_error) \in { 0, Ending }
        /\ Ending <= 1
        /\ metrics'.tool_calls_success + metrics'.tool_calls_error
               <= Cardinality({ c \in Calls : pc'[c] = "done" })
        /\ metrics'.tool_calls_success + metrics'.tool_calls_error
               <= metrics'.tool_calls_total ]_vars

\* one call has returned its output while the other is still reading: two
\* calls counted, one success, no error
C34_Witness ==
    \E c, d \in Calls :
        /\ Done(c)
        /\ result[c].kind = "success"
        /\ pc[d] = "reading"
        /\ metrics.tool_calls_total = 2
        /\ metrics.tool_calls_success = 1
        /\ metrics.tool_calls_error = 0

\* register_plugin_tools has returned and its handlers are registered
RegistrationReturned == reg.pc = "done" /\ reg.handlers

\* C35: whenever register_plugin_tools has returned, after the first call
\* or a later one, tools_registered is the number of tools the registered
\* list_tools handler returns.
C35_RegisteredIsListed ==
    RegistrationReturned => metrics.tools_registered = Len(list_tools_handler)

\* C36: whenever discover_plugins has returned, after the first call or a
\* later one, with the plugins directory there or gone, plugins_discovered
\* is the number of entries of the mapping it returned.
C36_DiscoveredIsReturned ==
    reg.pc # "init" => metrics.plugins_discovered = Cardinality(DOMAIN plugin_registry)

\* C37: no step of a tool call, whatever its outcome, changes the
\* descriptor store, the registration state, the advertised tools or the
\* counters plugins_discovered and tools_registered; of the shared state
\* only the three tool_calls_* counters change.
C37_CallsLeaveRegistration ==
    [][ /\ plugin_registry' = plugin_registry
        /\ all_tools' = all_tools
        /\ reg' = reg
        /\ plugin_root' = plugin_root
        /\ launch' = launch
        /\ metrics'.plugins_discovered = metrics.plugins_discovered
        /\ metrics'.tools_registered = metrics.tools_registered ]_vars

\* calls of every outcome have ended and counted, and the registration is
\* as the startup left it
C37_Witness ==
    \E c \in Calls :
        /\ Done(c)
        /\ result[c].kind \in { "success", "exit_error", "timeout", "exception" }
        /\ metrics.tool_calls_total = 1
        /\ metrics.tool_calls_success + metrics.tool_calls_error = 1
        /\ plugin_registry = RegistryAfterDiscovery
        /\ list_tools_handler = ToolsAfterDiscovery
        /\ metrics.plugins_discovered = 1
        /\ metrics.tools_registered = 1

\* C38: the tools list_tools returns have pairwise distinct names, whatever
\* the plugins print on --describe and --help.
C38_DistinctToolNames ==
    reg.handlers =>
        \A i, j \in 1..Len(list_tools_handler) :
            list_tools_handler[i].name = list_tools_handler[j].name => i = j

\* the call reached the end of read_output before its deadline: both
\* readers are at end of stream and the exit has been observed
DrainedInTime(c) ==
    /\ pc[c] = "reading"
    /\ AllEof(c)
    /\ process[c].returncode # None
    /\ now < deadline[c]

\* C39: a call whose plugin exited by itself before the deadline, and which
\* met no exception, returns the success text or the error text of the exit
\* status, never a timeout text, whenever the write ends of its pipes are
\* closed.
C39_ExitedNeverTimesOut ==
    \A c \in Calls :
        Done(c) /\ process[c].in_time /\ result[c].kind # "exception"
            => /\ result[c].kind \in { "success", "exit_error" }
               /\ result[c].kind = "success" <=> process[c].status = Some(0)

\* C39, for pipes that are closed in time: once both streams have ended and
\* the exit has been observed before the deadline, no time passes and the
\* next step of the call returns the text of the exit status (or of an
\* exception); the timeout path is not taken.
C39_DrainedInTimeIsClassified ==
    [][ \A c \in Calls :
            DrainedInTime(c) =>
                \/ pc'[c] = "reading" /\ now' = now
                \/ /\ Ends(c)
                   /\ result'[c].kind \in { "success", "exit_error", "exception" }
                   /\ result'[c].kind = "success" => process[c].status = Some(0)
                   /\ result'[c].kind = "exit_error" => process[c].status # Some(0) ]_vars

\* a plugin exited in time, time passed until the write ends were closed,
\* still before the deadline, and the call returned the text of its status
C39_Witness ==
    \E c \in Calls :
        /\ Classified(c)
        /\ process[c].in_time
        /\ result[c].kind \in { "success", "exit_error" }
        /\ now > 0
        /\ now < deadline[c]

\* the i-th invocation of the log did not end within its 10 seconds
Abandoned(i) == reg.log[i].run = TimeoutExpired

\* both invocations of the plugin were abandoned
Hung(plugin_name) ==
    /\ \E i \in 1..Len(reg.log) :
           reg.log[i].plugin = plugin_name /\ reg.log[i].tier = "--describe" /\ Abandoned(i)
    /\ \E i \in 1..Len(reg.log) :
           reg.log[i].plugin = plugin_name /\ reg.log[i].tier = "--help" /\ Abandoned(i)

\* the tool was made of a command of the plugin
ToolOf(plugin_name, t) == Take(t.name, Len(plugin_name) + Len(DUNDER)) = plugin_name \o DUNDER

\* C40: register_plugin_tools comes to an end for every plugins directory
\* and whatever the plugins do; an invocation that was abandoned at its
\* timeout yields no tool and lets no exception out, an abandoned --describe
\* is followed by the help tier, a plugin with both invocations abandoned
\* has no tool in the list, and registration that went through all plugins
\* has the handlers registered.
C40_RegistrationTerminates ==
    /\ <>(reg.pc \in { "done", "raised" })
    /\ [](\A i \in 1..Len(reg.log) :
              Abandoned(i) =>
                  /\ reg.log[i].found = << >>
                  /\ reg.log[i].tier = "--describe" => reg.log[i].null
                  /\ i = Len(reg.log) => reg.pc # "raised"
                  /\ i = Len(reg.log) /\ reg.log[i].tier = "--describe" => reg.pc = "help")
    /\ [](\A n \in DOMAIN plugin_registry :
              Hung(n) => \A k \in 1..Len(all_tools) : ~ToolOf(n, all_tools[k]))
    /\ [](reg.pc = "done" => reg.handlers /\ list_tools_handler = all_tools)

\* the first plugin hung in --describe and in --help; registration went on
\* to the second, made its tools and registered the handlers
C40_Witness ==
    /\ reg.pc = "done"
    /\ reg.handlers
    /\ Len(reg.log) >= 3
    /\ Abandoned(1)
    /\ Abandoned(2)
    /\ Hung(reg.log[1].plugin)
    /\ reg.log[3].plugin # reg.log[1].plugin
    /\ list_tools_handler # << >>
    /\ \A k \in 1..Len(list_tools_handler) :
           ToolOf(reg.log[3].plugin, list_tools_handler[k])

====
